---- MODULE Spec2Model ----
(***************************************************************************)
(* InteractiveDAW: the sensor node (hit detector, bounded OSC sender,       *)
(* fixed-rate loop) and the laptop node (OSC receive buffer, gesture FSM,   *)
(* music router, fixed-rate loop), each as a state machine.                 *)
(*                                                                         *)
(* Time is an integer count of clock units.  The router clock counts       *)
(* seconds, the hit detector counts microseconds (so that the 1e-6 s       *)
(* tolerance is one unit), the gesture FSM counts milliseconds.            *)
(* Distances are whole centimetres.  Python None is the value None.        *)
(***************************************************************************)
EXTENDS Integers, Sequences, FiniteSets, TLC

None == -1

Max(a, b) == IF a >= b THEN a ELSE b
Min(a, b) == IF a <= b THEN a ELSE b

(***************************************************************************)
(* Bounds of the model.                                                    *)
(***************************************************************************)
MaxTime == 2          \* router clock horizon (s)
WatchdogS == 3        \* RouterConfig.watchdog_s used by the model (s)

(***************************************************************************)
(* laptop_node: configuration of the router (values of the test fixture).  *)
(***************************************************************************)
D_MIN_CM == 15
D_MAX_CM == 60
NOTE_LO == 48
NOTE_HI == 72
DrumChannel == 10
DrumNote == 36
LeadChannel == 1
LeadVelocity == 90
ControlChannel == 1
RecordCC == 20
InsertTrackCC == 21
DrumVelocityDefault == 100
Bpm == 120
CountinBeats == 4
DIST_STEP_CM == 5

\* instrument_map: label -> entry; a label that is not a key is a lead
\* without program (dict.get default of _apply_instrument).
InstrumentLabels == {"", "synth", "drums"}
InstrumentMap ==
  [l \in InstrumentLabels |->
     IF l = "synth" THEN [type |-> "lead", program |-> 81, note |-> None]
     ELSE IF l = "drums" THEN [type |-> "drum", program |-> None, note |-> 38]
     ELSE [type |-> "lead", program |-> None, note |-> None]]

\* RouterConfig flags (both insert-track options switched on)
auto_insert_on_instrument_change == TRUE
insert_on_record_start == TRUE

CameraStates == {"instrument select", "play"}
\* distances a snapshot can carry: absent or one of two readings
Distances == {None, 30, 45}

VARIABLES
  \* RouterState and MusicRouter fields
  held_note, last_note_sent, mute_until, was_recording, was_note_playing,
  last_camera_state, last_instrument_state, watchdog_tripped,
  current_is_drum, current_drum_note,
  \* the RouterConfig flags the router was built with
  router_config,
  \* router clock
  now,
  \* history of the last tick and of the sent note messages
  last_tick, sounding, edge_t0

VARIABLES
  \* rasp_pi_node: HitState, the hysteresis the detector is configured with,
  \* the sensor-node clock, and the result of the last detect_hit call
  hit_st, hit_hyst, hit_clock, hit_result,
  \* history: times of the last two fired hits, and whether a sample above
  \* threshold + hysteresis was seen since the last fired hit
  hit_times, high_since_fire

hitVars == <<hit_st, hit_hyst, hit_clock, hit_result, hit_times,
             high_since_fire>>

VARIABLES
  \* rasp_pi_node OscTx: the deque, the closed flag, where the osc-tx thread
  \* stands and the message it has popped
  queue, closed, worker_pc, worker_msg,
  \* the producer's call counts (the k-th /dist carries the value k)
  n_dist, n_hit, n_alive,
  \* laptop_node _SensorBuffer, the laptop clock, the last snapshot read
  buf_dist_cm, buf_pending_hit, buf_last_rx_ts, rx_now, snapshot,
  \* history: the last operation, the value of the last send_dist call, of
  \* the last one that found room or a queued /dist, whether a /dist was
  \* evicted, how often each hit was returned by a read
  last_op, last_sent_dist, last_kept_dist, evicted, returned

VARIABLES
  \* rasp_pi_node _run_loop: the monotonic clock, next_tick, next_alive,
  \* alive_seq
  pi_clock, pi_next_tick, next_alive, alive_seq,
  \* laptop_node router_loop: perf_counter and next_tick
  loop_clock, loop_next_tick,
  \* history: the deadlines each loop has waited for so far, and whether a
  \* cycle of the loop took longer than its period
  pi_deadlines, loop_deadlines, pi_overran, loop_overran,
  \* history: of the last cycle of each loop, whether it slept, whether the
  \* time of its deadline had passed when its sleep was due, and how long
  \* its processing took
  pi_last, loop_last

schedVars == <<pi_clock, pi_next_tick, next_alive, alive_seq, loop_clock,
               loop_next_tick, pi_deadlines, loop_deadlines, pi_overran,
               loop_overran, pi_last, loop_last>>

VARIABLES
  \* laptop_node CameraController: its fields, and time.time() in ms
  cam, cam_now,
  \* history: the run of equal finger counts over the processed frames (its
  \* value, the time of its first frame, whether all its frames began in
  \* instrument select), and what the last frame did
  fc_run, cam_last

cameraVars == <<cam, cam_now, fc_run, cam_last>>

telemetryVars == <<queue, closed, worker_pc, worker_msg, n_dist, n_hit,
                   n_alive, buf_dist_cm, buf_pending_hit, buf_last_rx_ts,
                   rx_now, snapshot, last_op, last_sent_dist, last_kept_dist,
                   evicted, returned>>

routerVars == <<held_note, last_note_sent, mute_until, was_recording,
                was_note_playing, last_camera_state, last_instrument_state,
                watchdog_tripped, current_is_drum, current_drum_note,
                router_config, now, last_tick, sounding, edge_t0>>

VARIABLES
  \* laptop_node/mapping.py exercised on its own, each as a sequence that is
  \* empty or holds one value: the arguments last given to the NoteMapping
  \* constructor and the object it returned (empty when it raised); and the
  \* last two quantize_note calls on that object, newest last
  mapping_tried, mapping_cfg, q_calls

mappingVars == <<mapping_tried, mapping_cfg, q_calls>>

VARIABLES
  \* rasp_pi_node _compute_velocity exercised on its own: the velocity fields
  \* of the HitState in use (a sequence, empty before one is built), and the
  \* last two calls on it, newest last
  vel_cfg, v_calls

velocityVars == <<vel_cfg, v_calls>>

VARIABLES
  \* laptop_node router_loop: whether its while loop is still running
  loop_running

loopVars == <<loop_running>>

\* history of the outbound queue: the messages _enqueue accepted and the
\* messages the worker handed to client.send_message, in order
VARIABLES acc_log, tx_log
queueLogVars == <<acc_log, tx_log>>

VARIABLES
  \* rasp_pi_node run(): stop_flag["stop"], and whether _run_loop is still
  \* in its while loop
  stop_flag, sensor_running,
  \* laptop_node async_main(): whether cancel() was called on the task of
  \* router_loop, the state of that task, the number of process_tick calls
  \* begun after the cancel() and whether a received datagram is waiting for
  \* the event loop to run its handler
  cancel_requested, loop_task, ticks_after_cancel, datagram_pending
cancelVars == <<stop_flag, sensor_running, cancel_requested, loop_task,
                ticks_after_cancel, datagram_pending>>

VARIABLES
  \* rasp_pi_node run(): the statement it has reached, and whether the
  \* OscTx and the sensor driver exist and are not closed
  run_pc, osc_open, sensor_open,
  \* laptop_node async_main(): the statement it has reached, and whether the
  \* two MIDI ports and the transport of the OSC server are open
  main_pc, musical_open, control_open, receiver_open
lifecycleVars == <<run_pc, osc_open, sensor_open, main_pc, musical_open,
                   control_open, receiver_open>>

\* rasp_pi_node HCSR04: the fields guarded by the driver's lock (in_flight,
\* start_tick, last_echo_us), the tick of the last edge, and as history the
\* number of the stored echo, how often each echo was returned by a read,
\* what the last call returned and which call it was
VARIABLES drv
driverVars == <<drv>>

\* laptop_node CameraController: settings.instruments as given to __init__,
\* and as history what _infer reported for the last frame (the pose, the
\* thumb-to-index distance), the mode at the start of that frame, whether
\* the fist edge of _run_fsm fired in it, the time since when arm_combo
\* was true on every frame of the current stay in play, and the time since
\* when the finger count was at most FIST_MAX_UP on every frame
VARIABLES cam_instruments, cam_in
gestureVars == <<cam_instruments, cam_in>>

\* laptop_node, the capture thread against the router's snapshot(): where
\* the frame update in progress stands and what it carries in its locals,
\* the last mapping snapshot() returned, and as history the gesture state
\* at the start of the frame in progress and the snapshots taken during it
VARIABLES upd, snap, seen
snapshotVars == <<upd, snap, seen>>

(***************************************************************************)
(* laptop_node/mapping.py                                                  *)
(***************************************************************************)
\* Python round() of the non-negative rational num/den: nearest integer,
\* ties to the even neighbour.
PyRound(num, den) ==
  LET q == num \div den
      r == num % den
  IN IF 2 * r < den THEN q
     ELSE IF 2 * r > den THEN q + 1
     ELSE IF q % 2 = 0 THEN q ELSE q + 1

\* NoteMapping.__post_init__: the values the constructor accepts
NoteMapping_post_init(m) ==
  ~(m.d_min_cm >= m.d_max_cm) /\ ~(m.note_lo > m.note_hi)

\* the mapping the router is built with
RouterMapping ==
  [d_min_cm |-> D_MIN_CM, d_max_cm |-> D_MAX_CM,
   note_lo |-> NOTE_LO, note_hi |-> NOTE_HI]

clamp_distance(dist_cm, m) ==
  IF dist_cm < m.d_min_cm THEN m.d_min_cm
  ELSE IF dist_cm > m.d_max_cm THEN m.d_max_cm
  ELSE dist_cm

\* interpolate_note as the rational <<numerator, denominator>>
interpolate_note(dist_cm, m) ==
  LET distance_span == m.d_max_cm - m.d_min_cm
      note_span == m.note_hi - m.note_lo
  IN IF distance_span = 0 \/ note_span = 0 THEN <<m.note_lo, 1>>
     ELSE <<m.note_lo * distance_span + (dist_cm - m.d_min_cm) * note_span,
            distance_span>>

\* Python int() of the rational num/den, den > 0: truncation towards zero
PyInt(num, den) ==
  IF num >= 0 THEN num \div den ELSE -((-num) \div den)

\* quantize_note with scale_fn None; int(note_float + 0.5)
quantize_note(dist_cm, m) ==
  LET nf == interpolate_note(clamp_distance(dist_cm, m), m)
      quantized == PyInt(2 * nf[1] + nf[2], 2 * nf[2])
  IN IF quantized < m.note_lo THEN m.note_lo
     ELSE IF quantized > m.note_hi THEN m.note_hi
     ELSE quantized

\* music_router.py line 105: round(dist / DIST_STEP_CM) * DIST_STEP_CM
snap_dist(dist_cm) == PyRound(dist_cm, DIST_STEP_CM) * DIST_STEP_CM

NoteOf(dist_cm) == quantize_note(snap_dist(dist_cm), RouterMapping)

(***************************************************************************)
(* laptop_node/midi_io.py.  A tick is run on a record s that carries the   *)
(* router fields, the messages sent so far in the tick (out), the number   *)
(* of send attempts, the index of the attempt that raises (fail, 0 for     *)
(* none) and whether an exception has left the tick (aborted).             *)
(***************************************************************************)
Raise(s) == [s EXCEPT !.aborted = TRUE, !.channel_error = TRUE]

port_send(s, msg) ==
  IF s.aborted THEN s
  ELSE IF s.attempts + 1 = s.fail
       THEN [s EXCEPT !.attempts = @ + 1, !.tried = Append(@, msg),
                      !.aborted = TRUE]
       ELSE [s EXCEPT !.attempts = @ + 1, !.tried = Append(@, msg),
                      !.out = Append(@, msg)]

channel_ok(channel) == 1 <= channel /\ channel <= 16

send_note_on(s, channel, note, velocity) ==
  IF ~channel_ok(channel) THEN Raise(s)
  ELSE port_send(s, [type |-> "note_on", port |-> "musical",
                     channel |-> channel - 1, data |-> note, value |-> velocity])

send_note_off(s, channel, note, velocity) ==
  IF ~channel_ok(channel) THEN Raise(s)
  ELSE port_send(s, [type |-> "note_off", port |-> "musical",
                     channel |-> channel - 1, data |-> note, value |-> velocity])

send_control_change(s, channel, cc, value) ==
  IF ~channel_ok(channel) THEN Raise(s)
  ELSE port_send(s, [type |-> "control_change", port |-> "control",
                     channel |-> channel - 1, data |-> cc, value |-> value])

send_program_change(s, channel, program) ==
  IF ~channel_ok(channel) THEN Raise(s)
  ELSE port_send(s, [type |-> "program_change", port |-> "musical",
                     channel |-> channel - 1, data |-> program, value |-> 0])

(***************************************************************************)
(* laptop_node/music_router.py                                             *)
(***************************************************************************)
countin_duration == (CountinBeats * 60) \div Bpm

\* lines 142-153 with the bookkeeping done before the send
_release_note_clear_first(s) ==
  IF s.aborted \/ s.held_note = None THEN s
  ELSE send_note_off([s EXCEPT !.held_note = None, !.last_note_sent = None],
                     s.config.lead_channel, s.held_note, 0)

_release_note(s) ==
  IF s.aborted \/ s.held_note = None THEN s
  ELSE LET s1 == send_note_off(s, s.config.lead_channel, s.held_note, 0)
       IN IF s1.aborted THEN s1
          ELSE [s1 EXCEPT !.held_note = None, !.last_note_sent = None]

_trigger_drum(s, velocity) ==
  IF s.aborted THEN s
  ELSE send_note_off(
         send_note_on(s, s.config.drum_channel, s.current_drum_note, velocity),
         s.config.drum_channel, s.current_drum_note, 0)

_insert_new_track(s) ==
  IF s.aborted THEN s
  ELSE send_control_change(s, s.config.control_channel, InsertTrackCC, 127)

\* lines 207-220 without the try/except around send_program_change
_apply_instrument_propagating(s, label) ==
  LET entry == IF label \in DOMAIN InstrumentMap THEN InstrumentMap[label]
               ELSE [type |-> "lead", program |-> None, note |-> None]
  IN IF entry.type = "drum"
     THEN [s EXCEPT !.current_is_drum = TRUE,
                    !.current_drum_note =
                       IF entry.note = None THEN DrumNote ELSE entry.note]
     ELSE LET s1 == [s EXCEPT !.current_is_drum = FALSE]
          IN IF entry.program = None THEN s1
             ELSE send_program_change(s1, s.config.lead_channel, entry.program)

\* the try/except around send_program_change swallows the exception
_apply_instrument(s, label) ==
  LET entry == IF label \in DOMAIN InstrumentMap THEN InstrumentMap[label]
               ELSE [type |-> "lead", program |-> None, note |-> None]
  IN IF entry.type = "drum"
     THEN [s EXCEPT !.current_is_drum = TRUE,
                    !.current_drum_note =
                       IF entry.note = None THEN DrumNote ELSE entry.note]
     ELSE LET s1 == [s EXCEPT !.current_is_drum = FALSE]
          IN IF entry.program = None THEN s1
             ELSE [send_program_change(s1, s.config.lead_channel, entry.program)
                     EXCEPT !.aborted = FALSE]

_log_mode_changes(s, app) ==
  LET s1 == [s EXCEPT !.last_camera_state = app.camera_state]
  IN IF app.instrument_state # s1.last_instrument_state
     THEN _apply_instrument(
            [s1 EXCEPT !.last_instrument_state = app.instrument_state,
                       !.instrument_changed = TRUE],
            app.instrument_state)
     ELSE s1

_check_watchdog(s, sensor, t) ==
  IF s.aborted THEN s
  ELSE IF t - sensor.last_rx_ts >= WatchdogS
       THEN _release_note([s EXCEPT !.watchdog_tripped = TRUE])
       ELSE [s EXCEPT !.watchdog_tripped = FALSE]

\* lines 175-183 with the falling edge sending no control change
_handle_recording_edge_silent_stop(s, app, t) ==
  IF s.aborted THEN s
  ELSE IF ~s.was_recording /\ app.recording
  THEN LET s1 == send_control_change(s, s.config.control_channel, RecordCC, 127)
           s2 == IF s.config.insert_on_record_start
                 THEN send_control_change(s1, s.config.control_channel, InsertTrackCC, 127)
                 ELSE s1
       IN IF s2.aborted THEN s2
          ELSE _release_note([s2 EXCEPT !.mute_until = t + countin_duration,
                                        !.was_recording = TRUE])
  ELSE IF s.was_recording /\ ~app.recording
  THEN [s EXCEPT !.was_recording = FALSE]
  ELSE s

_handle_recording_edge(s, app, t) ==
  IF s.aborted THEN s
  ELSE IF ~s.was_recording /\ app.recording
  THEN LET s1 == send_control_change(s, s.config.control_channel, RecordCC, 127)
           s2 == IF s.config.insert_on_record_start
                 THEN send_control_change(s1, s.config.control_channel, InsertTrackCC, 127)
                 ELSE s1
       IN IF s2.aborted THEN s2
          ELSE _release_note([s2 EXCEPT !.mute_until = t + countin_duration,
                                        !.was_recording = TRUE])
  ELSE IF s.was_recording /\ ~app.recording
  THEN LET s1 == send_control_change(s, s.config.control_channel, RecordCC, 127)
       IN IF s1.aborted THEN s1 ELSE [s1 EXCEPT !.was_recording = FALSE]
  ELSE s

\* lines 82-84, 87-89, 101-103 without the call of _release_note
stop_without_release(s) == [s EXCEPT !.was_note_playing = FALSE]

\* lines 82-84, 87-89, 101-103: release, mark not playing, return
release_and_stop(s) ==
  LET s1 == _release_note(s)
  IN IF s1.aborted THEN s1 ELSE [s1 EXCEPT !.was_note_playing = FALSE]

\* lines 91-97
play_drum(s, app) ==
  LET s1 == _release_note(s)
      s2 == IF ~s1.aborted /\ ~s1.was_note_playing /\ app.is_note_being_played
            THEN _trigger_drum(s1, DrumVelocityDefault)
            ELSE s1
  IN IF s2.aborted THEN s2
     ELSE [s2 EXCEPT !.was_note_playing = app.is_note_being_played]

\* lines 105-122 without the change-only test of line 107
play_pitched_retrigger(s, note) ==
  LET s1 == _release_note(s)
      s2 == send_note_on(s1, s.config.lead_channel, note, LeadVelocity)
  IN IF s2.aborted THEN s2
     ELSE [s2 EXCEPT !.held_note = note, !.last_note_sent = note,
                     !.was_note_playing = TRUE]

\* lines 105-122
play_pitched(s, note) ==
  IF s.held_note = note THEN s
  ELSE LET s1 == _release_note(s)
           s2 == send_note_on(s1, s.config.lead_channel, note, LeadVelocity)
       IN IF s2.aborted THEN s2
          ELSE [s2 EXCEPT !.held_note = note, !.last_note_sent = note,
                          !.was_note_playing = TRUE]

\* line 79 with the boundary tick still muted
is_muted_inclusive(s, t) == t <= s.mute_until

\* line 79
is_muted(s, t) == t < s.mute_until

\* lines 70-76 with the insert request not tied to app_state.recording
instrument_change_step_always_insert(s, app) ==
  LET s1 == _log_mode_changes([s EXCEPT !.instrument_changed = FALSE], app)
  IN IF ~s1.instrument_changed THEN s1
     ELSE LET s2 == _release_note(s1)
          IN IF ~s2.aborted /\ s.config.auto_insert_on_instrument_change
             THEN _insert_new_track(s2)
             ELSE s2

\* lines 70-76
instrument_change_step(s, app) ==
  LET s1 == _log_mode_changes([s EXCEPT !.instrument_changed = FALSE], app)
  IN IF ~s1.instrument_changed THEN s1
     ELSE LET s2 == _release_note(s1)
          IN IF ~s2.aborted /\ s.config.auto_insert_on_instrument_change
                /\ app.recording
             THEN _insert_new_track(s2)
             ELSE s2

\* lines 81-122
route(s, app, sensor, t) ==
  IF s.aborted THEN s
  ELSE IF app.camera_state # "play" THEN release_and_stop(s)
  ELSE IF is_muted(s, t) THEN release_and_stop(s)
  ELSE IF s.current_is_drum THEN play_drum(s, app)
  ELSE IF ~app.is_note_being_played \/ sensor.dist_cm = None
       THEN release_and_stop(s)
  ELSE play_pitched(s, NoteOf(sensor.dist_cm))

process_tick(s, app, sensor, t) ==
  route(_handle_recording_edge(
          _check_watchdog(instrument_change_step(s, app), sensor, t),
          app, t),
        app, sensor, t)

(***************************************************************************)
(* History kept beside the router: the lead notes that sound at the        *)
(* instrument (NoteOn sent, no NoteOff since), as note -> count.           *)
(***************************************************************************)
LeadNotes == {NoteOf(d) : d \in Distances \ {None}}

IsLeadOn(m) == m.type = "note_on" /\ m.channel = LeadChannel - 1
IsLeadOff(m) == m.type = "note_off" /\ m.channel = LeadChannel - 1
IsNoteOn(m) == m.type = "note_on"
IsNoteOff(m) == m.type = "note_off"
IsNoteMsg(m) == m.type \in {"note_on", "note_off"}

RECURSIVE ApplyNotes(_, _)
ApplyNotes(snd, msgs) ==
  IF msgs = <<>> THEN snd
  ELSE LET m == Head(msgs)
           snd1 == IF IsLeadOn(m) /\ m.data \in DOMAIN snd
                   THEN [snd EXCEPT ![m.data] = Min(@ + 1, 2)]
                   ELSE IF IsLeadOff(m) /\ m.data \in DOMAIN snd
                   THEN [snd EXCEPT ![m.data] = Max(@ - 1, 0)]
                   ELSE snd
       IN ApplyNotes(snd1, Tail(msgs))

Count(msgs, P(_)) == Cardinality({i \in DOMAIN msgs : P(msgs[i])})

otherThanRouterLoop ==
  <<hitVars, telemetryVars, schedVars, cameraVars, mappingVars,
    velocityVars, queueLogVars, cancelVars, lifecycleVars, driverVars, gestureVars, snapshotVars>>

otherThanRouter == <<otherThanRouterLoop, loopVars>>

RouterRecord(fail) ==
  [held_note |-> held_note, last_note_sent |-> last_note_sent,
   mute_until |-> mute_until, was_recording |-> was_recording,
   was_note_playing |-> was_note_playing,
   last_camera_state |-> last_camera_state,
   last_instrument_state |-> last_instrument_state,
   instrument_changed |-> FALSE,
   watchdog_tripped |-> watchdog_tripped,
   current_is_drum |-> current_is_drum,
   current_drum_note |-> current_drum_note,
   config |-> router_config,
   out |-> <<>>, tried |-> <<>>, attempts |-> 0, fail |-> fail,
   channel_error |-> FALSE, aborted |-> FALSE]

RouterInit ==
  /\ held_note = None
  /\ last_note_sent = None
  /\ mute_until = 0
  /\ was_recording = FALSE
  /\ was_note_playing = FALSE
  /\ last_camera_state = "None"
  /\ last_instrument_state = "None"
  /\ watchdog_tripped = FALSE
  /\ current_is_drum = FALSE
  /\ current_drum_note = DrumNote
  /\ router_config =
       [auto_insert_on_instrument_change |-> auto_insert_on_instrument_change,
        insert_on_record_start |-> insert_on_record_start,
        drum_channel |-> DrumChannel, lead_channel |-> LeadChannel,
        control_channel |-> ControlChannel]
  /\ now = 0
  /\ last_tick = [ran |-> FALSE, gate |-> FALSE, recording |-> FALSE,
                  dist |-> None, hit |-> None, stale |-> FALSE,
                  tried |-> <<>>, fail |-> 0, channel_error |-> FALSE,
                  aborted |-> FALSE,
                  out |-> <<>>]
  /\ sounding = [n \in LeadNotes |-> 0]
  /\ edge_t0 = None


\* One iteration of router_loop's body as far as the router is concerned:
\* the clock advances by dt and process_tick runs on the camera snapshot app
\* and on a sensor snapshot whose last receipt is `elapsed` old; attempt
\* number fail of the tick's sends raises (0: none does).
TickResult(app, dist, hit, elapsed, t, fail) ==
  process_tick(RouterRecord(fail), app,
               [dist_cm |-> dist, hit_velocity |-> hit,
                last_rx_ts |-> t - elapsed], t)

\* One router_loop iteration.  last_tick is history: with log it records the
\* tick's inputs and the messages it sent, without log only that it aborted.
Tick(app, dist, hit, elapsed, dt, fail, log) ==
  /\ now + dt <= MaxTime
  /\ \E s \in {TickResult(app, dist, hit, elapsed, now + dt, fail)} :
       LET t == now + dt
           stale == elapsed >= WatchdogS
       IN /\ now' = t
          /\ UNCHANGED router_config
          /\ held_note' = s.held_note
          /\ last_note_sent' = s.last_note_sent
          /\ mute_until' = s.mute_until
          /\ was_recording' = s.was_recording
          /\ was_note_playing' = s.was_note_playing
          /\ last_camera_state' = s.last_camera_state
          /\ last_instrument_state' = s.last_instrument_state
          /\ watchdog_tripped' = s.watchdog_tripped
          /\ current_is_drum' = s.current_is_drum
          /\ current_drum_note' = s.current_drum_note
          /\ sounding' = ApplyNotes(sounding, s.out)
          /\ edge_t0' = IF ~was_recording /\ s.was_recording THEN t
                        ELSE edge_t0
          /\ last_tick' =
               IF log
               THEN [ran |-> TRUE, gate |-> app.is_note_being_played,
                     recording |-> app.recording,
                     dist |-> dist, hit |-> hit, stale |-> stale,
                     tried |-> s.tried, fail |-> fail,
                     channel_error |-> s.channel_error,
                     aborted |-> s.aborted, out |-> s.out]
               ELSE [ran |-> TRUE, gate |-> FALSE, recording |-> FALSE,
                     dist |-> None, hit |-> None, stale |-> FALSE,
                     tried |-> <<>>, fail |-> 0, channel_error |-> FALSE,
                     aborted |-> s.aborted,
                     out |-> <<>>]

AppStates ==
  [instrument_state : InstrumentLabels, camera_state : CameraStates,
   recording : BOOLEAN, is_note_being_played : BOOLEAN]

\* the ages of the latest telemetry a snapshot is taken with: just received,
\* or exactly the watchdog timeout old
Elapsed == {0, WatchdogS}

\* every send of every tick succeeds
RouterNext ==
  /\ \E app \in AppStates, dist \in Distances, elapsed \in Elapsed,
        dt \in 0..1 :
       Tick(app, dist, None, elapsed, dt, 0, TRUE)
  /\ UNCHANGED otherThanRouter

\* any one send attempt of a tick may raise
RouterFailNext ==
  /\ \E app \in AppStates, dist \in Distances, elapsed \in Elapsed,
        dt \in 0..1 :
       \E fail \in 0..TickResult(app, dist, None, elapsed, now + dt, 0).attempts :
         Tick(app, dist, None, elapsed, dt, fail, FALSE)
  /\ UNCHANGED otherThanRouter

\* MusicRouter(outputs, config) built with other values of the two flags
\* than those of RouterInit, before the first tick
RouterConfigure(auto_insert, on_record_start) ==
  /\ ~last_tick.ran
  /\ router_config' =
       [router_config EXCEPT !.auto_insert_on_instrument_change = auto_insert,
                             !.insert_on_record_start = on_record_start]
  /\ UNCHANGED <<held_note, last_note_sent, mute_until, was_recording,
                 was_note_playing, last_camera_state, last_instrument_state,
                 watchdog_tripped, current_is_drum, current_drum_note, now,
                 last_tick, sounding, edge_t0>>
  /\ UNCHANGED otherThanRouter

\* ticks of a router built with any flags: fresh telemetry, all sends
\* succeed
ConfigDistances == {None, 30}

ConfigTick ==
  /\ \E app \in AppStates, dist \in ConfigDistances, dt \in 0..1 :
       Tick(app, dist, None, 0, dt, 0, TRUE)
  /\ UNCHANGED otherThanRouter

ConfigNext ==
  \/ \E auto_insert, on_record_start \in BOOLEAN :
       RouterConfigure(auto_insert, on_record_start)
  \/ ConfigTick

\* ticks on snapshots that may carry a hit velocity (_SensorBuffer.consume
\* returns pending_hit as hit_velocity): fresh telemetry, no distance, all
\* sends succeed
TickHits == {None, 64}

HitTick ==
  /\ \E app \in AppStates, hit \in TickHits, dt \in 0..1 :
       Tick(app, None, hit, 0, dt, 0, TRUE)
  /\ UNCHANGED otherThanRouter

\* ticks with fresh telemetry in which any one send attempt may raise, with
\* the attempts of the tick on record
SendFailDistances == {30}

SendFailTick ==
  /\ \E app \in AppStates, dist \in SendFailDistances, dt \in 0..1 :
       \E fail \in 0..TickResult(app, dist, None, 0, now + dt, 0).attempts :
         Tick(app, dist, None, 0, dt, fail, TRUE)
  /\ UNCHANGED otherThanRouter

\* RouterConfig(drum_channel=..., lead_channel=..., control_channel=...) as
\* _build_router_config builds it from int(...) of the configured values:
\* the dataclass and MusicRouter.__init__ accept any integers
ConfigChannels == {0, 10, 17}

RouterConfigureChannels(drum, lead, control) ==
  /\ ~last_tick.ran
  /\ router_config' =
       [router_config EXCEPT !.drum_channel = drum, !.lead_channel = lead,
                             !.control_channel = control]
  /\ UNCHANGED <<held_note, last_note_sent, mute_until, was_recording,
                 was_note_playing, last_camera_state, last_instrument_state,
                 watchdog_tripped, current_is_drum, current_drum_note, now,
                 last_tick, sounding, edge_t0>>
  /\ UNCHANGED otherThanRouter

\* ticks of a router built with any channels: fresh telemetry, no port
\* failure
ChannelTick ==
  /\ \E app \in AppStates, dist \in SendFailDistances, dt \in 0..1 :
       Tick(app, dist, None, 0, dt, 0, TRUE)
  /\ UNCHANGED otherThanRouter

ChannelNext ==
  \/ \E drum, lead, control \in ConfigChannels :
       RouterConfigureChannels(drum, lead, control)
  \/ ChannelTick

\* router_loop before its first iteration
LoopInit == loop_running = TRUE

\* One iteration of router_loop's while loop (laptop_node/main.py lines
\* 51-58), any one send attempt of which may raise.  The loop body has no
\* handler but the one for CancelledError, which re-raises: an exception
\* that leaves process_tick leaves the while loop and ends router_loop.
RouterLoopIteration ==
  /\ loop_running
  /\ \E app \in AppStates, dist \in Distances, elapsed \in Elapsed,
        dt \in 0..1 :
       \E fail \in 0..TickResult(app, dist, None, elapsed, now + dt, 0).attempts :
         Tick(app, dist, None, elapsed, dt, fail, FALSE)
  /\ loop_running' = ~last_tick'.aborted
  /\ UNCHANGED otherThanRouterLoop

(***************************************************************************)
(* rasp_pi_node/hit_detect.py.  Times are microseconds.                    *)
(***************************************************************************)
HitUnitsPerSec == 1000000
Epsilon == 1              \* epsilon = 1e-6 s
RefractUs == 3            \* refract_s of the model
MaxHitTime == 6           \* sensor clock horizon
MaxHitStep == 2           \* largest gap between two samples
Thresh == 30
VelocityMin == 30
VelocityMax == 127
MinSpeedCmS == 5
MaxSpeedCmS == 120
FixedVelocity == 100
Hysteresis == {0, 2}
HitSamples == {27, 28, 30, 32, 33}

\* HitState defaults of the velocity fields (lines 17-21)
HitVelocityDefaults ==
  [velocity_min |-> VelocityMin, velocity_max |-> VelocityMax,
   min_speed_cm_s |-> MinSpeedCmS, max_speed_cm_s |-> MaxSpeedCmS,
   fixed_velocity |-> FixedVelocity]

\* int(round(velocity)) of the interpolation, as a rational over
\* (max_speed - min_speed) * dt; approach speed in cm/s is speed_num / dt
interpolate_velocity(speed_num, dt, st) ==
  PyRound(st.velocity_min * (st.max_speed_cm_s - st.min_speed_cm_s) * dt
            + (speed_num - st.min_speed_cm_s * dt)
                * (st.velocity_max - st.velocity_min),
          (st.max_speed_cm_s - st.min_speed_cm_s) * dt)

\* lines 64-67 without the return of velocity_max
_compute_velocity_no_upper_clamp(cm, t_s, st) ==
  IF st.last_cm = None \/ st.last_sample_s = None THEN st.fixed_velocity
  ELSE LET dt == t_s - st.last_sample_s
       IN IF dt <= 0 THEN st.fixed_velocity
          ELSE LET speed_num == Max(0, (st.last_cm - cm) * HitUnitsPerSec)
               IN IF speed_num <= st.min_speed_cm_s * dt THEN st.velocity_min
                  ELSE interpolate_velocity(speed_num, dt, st)

_compute_velocity(cm, t_s, st) ==
  IF st.last_cm = None \/ st.last_sample_s = None THEN st.fixed_velocity
  ELSE LET dt == t_s - st.last_sample_s
       IN IF dt <= 0 THEN st.fixed_velocity
          ELSE LET speed_num == Max(0, (st.last_cm - cm) * HitUnitsPerSec)
               IN IF speed_num <= st.min_speed_cm_s * dt THEN st.velocity_min
                  ELSE IF speed_num >= st.max_speed_cm_s * dt
                       THEN st.velocity_max
                  ELSE interpolate_velocity(speed_num, dt, st)

\* line 39 without the refractory guard
fires_no_refractory(cm, t_s, st, thresh, hyst, refract_s) ==
  st.armed /\ cm < thresh - hyst

\* line 39 without the armed guard
fires_unarmed(cm, t_s, st, thresh, hyst, refract_s) ==
  cm < thresh - hyst /\ (t_s - st.last_hit_s) + Epsilon >= refract_s

\* does the call fire (line 39)
fires(cm, t_s, st, thresh, hyst, refract_s) ==
  /\ st.armed
  /\ cm < thresh - hyst
  /\ (t_s - st.last_hit_s) + Epsilon >= refract_s

\* detect_hit: <<fired, velocity, st>>
detect_hit(cm, t_s, st, thresh, hyst, refract_s) ==
  LET fired == fires(cm, t_s, st, thresh, hyst, refract_s)
      velocity == IF fired THEN _compute_velocity(cm, t_s, st) ELSE 0
      st1 == IF fired THEN [st EXCEPT !.armed = FALSE, !.last_hit_s = t_s]
             ELSE st
      st2 == IF ~st1.armed /\ cm > thresh + hyst
             THEN [st1 EXCEPT !.armed = TRUE] ELSE st1
  IN <<fired, velocity,
       [st2 EXCEPT !.last_cm = cm, !.last_sample_s = t_s]>>

\* run(): HitState(armed=True, last_hit_s=monotonic() - refractory_s, ...)
HitInit ==
  /\ hit_hyst = None
  /\ hit_clock = 0
  /\ hit_st = [armed |-> TRUE, last_hit_s |-> 0 - RefractUs,
               last_cm |-> None, last_sample_s |-> None]
               @@ HitVelocityDefaults
  /\ hit_result = [fired |-> FALSE, velocity |-> 0]
  /\ hit_times = <<None, None>>
  /\ high_since_fire = FALSE

\* _run_loop reads hysteresis_cm from hit_cfg before its first cycle
HitConfigure(hyst) ==
  /\ hit_hyst = None
  /\ hit_hyst' = hyst
  /\ UNCHANGED <<hit_st, hit_clock, hit_result, hit_times, high_since_fire>>

\* one detect_hit call of the acquisition loop, dt after the previous one
HitSample(cm, dt) ==
  /\ hit_hyst # None
  /\ hit_clock + dt <= MaxHitTime
  /\ \E r \in {detect_hit(cm, hit_clock + dt, hit_st, Thresh, hit_hyst,
                           RefractUs)} :
       /\ hit_clock' = hit_clock + dt
       /\ hit_st' = r[3]
       /\ hit_result' = [fired |-> r[1], velocity |-> r[2]]
       /\ hit_times' = IF r[1] THEN <<hit_times[2], hit_clock + dt>>
                        ELSE hit_times
       /\ high_since_fire' = IF r[1] THEN FALSE
                              ELSE high_since_fire \/ cm > Thresh + hit_hyst
  /\ UNCHANGED hit_hyst

HitNext ==
  /\ \/ \E hyst \in Hysteresis : HitConfigure(hyst)
     \/ \E cm \in HitSamples, dt \in 0..MaxHitStep : HitSample(cm, dt)
  /\ UNCHANGED <<routerVars, telemetryVars, schedVars, cameraVars,
               mappingVars, velocityVars, loopVars, queueLogVars,
               cancelVars, lifecycleVars, driverVars, gestureVars, snapshotVars>>

(***************************************************************************)
(* rasp_pi_node/osc_sender.py and laptop_node/pi_client.py                 *)
(***************************************************************************)
QueueSize == 2        \* queue_size of the model
MaxDist == 3          \* send_dist calls
MaxHit == 2           \* send_hit calls
MaxAlive == 1         \* send_alive calls

\* the velocity the k-th detected hit is sent with
HitVelocityOf(k) == 63 + k

\* max(0, min(int(velocity), 127))
clamp_velocity(velocity) == Max(0, Min(velocity, 127))

RECURSIVE first_dist_index(_, _)
\* index of the first /dist of q at or after i, 0 when there is none
first_dist_index(q, i) ==
  IF i > Len(q) THEN 0
  ELSE IF q[i].address = "/dist" THEN i
  ELSE first_dist_index(q, i + 1)

RemoveAt(q, i) == SubSeq(q, 1, i - 1) \o SubSeq(q, i + 1, Len(q))

\* _drop_oldest_dist_locked deleting the newest queued /dist instead
_drop_newest_dist_locked(q) ==
  LET S == {i \in DOMAIN q : q[i].address = "/dist"}
  IN IF S = {} THEN <<FALSE, q>>
     ELSE <<TRUE, RemoveAt(q, CHOOSE i \in S : \A j \in S : j <= i)>>

\* _drop_oldest_dist_locked: <<dropped, queue>>
_drop_oldest_dist_locked(q) ==
  LET idx == first_dist_index(q, 1)
  IN IF idx = 0 THEN <<FALSE, q>> ELSE <<TRUE, RemoveAt(q, idx)>>

\* _enqueue under the lock: <<accepted, queue>>
_enqueue(q, is_closed, address, payload, drop_oldest) ==
  IF is_closed THEN <<FALSE, q>>
  ELSE IF Len(q) >= QueueSize
  THEN LET d == _drop_oldest_dist_locked(q)
       IN IF drop_oldest /\ d[1]
          THEN <<TRUE, Append(d[2], [address |-> address, payload |-> payload])>>
          ELSE <<FALSE, q>>
  ELSE <<TRUE, Append(q, [address |-> address, payload |-> payload])>>

\* send_dist without the drop-oldest policy
send_dist_no_coalesce(q, is_closed, cm) ==
  _enqueue(q, is_closed, "/dist", cm, FALSE)

send_dist(q, is_closed, cm) == _enqueue(q, is_closed, "/dist", cm, TRUE)

\* send_hit with the drop-oldest policy of send_dist
send_hit_coalescing(q, is_closed, velocity) ==
  _enqueue(q, is_closed, "/hit", clamp_velocity(velocity), TRUE)

send_hit(q, is_closed, velocity) ==
  _enqueue(q, is_closed, "/hit", clamp_velocity(velocity), FALSE)

send_alive(q, is_closed, seq) == _enqueue(q, is_closed, "/alive", seq, FALSE)

\* Condition.notify: a thread waiting on the condition is made runnable
Notify(pc) == IF pc = "waiting" THEN "top" ELSE pc

\* _SensorBuffer.consume with the pending hit left in place
consume_keep_hit(dist_cm, pending_hit, last_rx_ts) ==
  <<[dist_cm |-> dist_cm, hit_velocity |-> pending_hit,
     last_rx_ts |-> last_rx_ts], pending_hit>>

\* _SensorBuffer.consume: <<snapshot, pending_hit afterwards>>
consume(dist_cm, pending_hit, last_rx_ts) ==
  <<[dist_cm |-> dist_cm, hit_velocity |-> pending_hit,
     last_rx_ts |-> last_rx_ts], None>>

\* rasp_pi_node OscTx._run: address, payload before the first popleft and
\* between a send_message and the next popleft, when the thread has no
\* message in hand; a pair like the queued ones, with no address
NoMsg == [address |-> "", payload |-> None]

TelemetryInit ==
  /\ queue = <<>>
  /\ closed = FALSE
  /\ worker_pc = "top"
  /\ worker_msg = NoMsg
  /\ n_dist = 0 /\ n_hit = 0 /\ n_alive = 0
  /\ buf_dist_cm = None
  /\ buf_pending_hit = None
  /\ buf_last_rx_ts = 0
  /\ rx_now = 0
  /\ snapshot = [dist_cm |-> None, hit_velocity |-> None, last_rx_ts |-> 0]
  /\ last_op = "init"
  /\ last_sent_dist = None
  /\ last_kept_dist = None
  /\ evicted = FALSE
  /\ returned = [k \in 1..MaxHit |-> 0]

senderGhostUnchanged ==
  UNCHANGED <<last_sent_dist, last_kept_dist, evicted>>
receiverUnchanged ==
  UNCHANGED <<buf_dist_cm, buf_pending_hit, buf_last_rx_ts, rx_now, snapshot,
              returned>>

\* the acquisition loop calls osc.send_dist(last_cm)
SendDist ==
  /\ n_dist < MaxDist
  /\ \E r \in {send_dist(queue, closed, n_dist + 1)} :
       /\ queue' = r[2]
       /\ worker_pc' = IF r[1] THEN Notify(worker_pc) ELSE worker_pc
       /\ evicted' = (evicted \/ (r[1] /\ Len(queue) >= QueueSize))
  /\ n_dist' = n_dist + 1
  /\ last_sent_dist' = n_dist + 1
  /\ last_kept_dist' =
       IF ~closed /\ (Len(queue) < QueueSize \/ first_dist_index(queue, 1) # 0)
       THEN n_dist + 1 ELSE last_kept_dist
  /\ last_op' = "send_dist"
  /\ UNCHANGED <<closed, worker_msg, n_hit, n_alive>>
  /\ receiverUnchanged

\* the acquisition loop calls osc.send_hit(velocity)
SendHit ==
  /\ n_hit < MaxHit
  /\ \E r \in {send_hit(queue, closed, HitVelocityOf(n_hit + 1))} :
       /\ queue' = r[2]
       /\ worker_pc' = IF r[1] THEN Notify(worker_pc) ELSE worker_pc
  /\ n_hit' = n_hit + 1
  /\ last_op' = "send_hit"
  /\ UNCHANGED <<closed, worker_msg, n_dist, n_alive>>
  /\ senderGhostUnchanged /\ receiverUnchanged

\* the acquisition loop calls osc.send_alive(alive_seq)
SendAlive ==
  /\ n_alive < MaxAlive
  /\ \E r \in {send_alive(queue, closed, n_alive + 1)} :
       /\ queue' = r[2]
       /\ worker_pc' = IF r[1] THEN Notify(worker_pc) ELSE worker_pc
  /\ n_alive' = n_alive + 1
  /\ last_op' = "send_alive"
  /\ UNCHANGED <<closed, worker_msg, n_dist, n_hit>>
  /\ senderGhostUnchanged /\ receiverUnchanged

\* OscTx.close() without the notify_all
Close_without_notify ==
  /\ closed' = TRUE
  /\ last_op' = "close"
  /\ UNCHANGED <<queue, worker_pc, worker_msg, n_dist, n_hit, n_alive>>
  /\ senderGhostUnchanged /\ receiverUnchanged

\* OscTx.close(): return when already closed, else set closed and
\* notify_all under the lock
Close ==
  /\ closed' = TRUE
  /\ worker_pc' = IF closed THEN worker_pc ELSE Notify(worker_pc)
  /\ last_op' = "close"
  /\ UNCHANGED <<queue, worker_msg, n_dist, n_hit, n_alive>>
  /\ senderGhostUnchanged /\ receiverUnchanged

\* _run, the block under the lock: wait while the queue is empty and the
\* sender is open, return when it is closed and empty, else popleft
WorkerLocked ==
  /\ worker_pc = "top"
  /\ IF queue = <<>> /\ ~closed
     THEN worker_pc' = "waiting" /\ UNCHANGED <<queue, worker_msg>>
     ELSE IF queue = <<>>
     THEN worker_pc' = "done" /\ UNCHANGED <<queue, worker_msg>>
     ELSE /\ worker_msg' = Head(queue)
          /\ queue' = Tail(queue)
          /\ worker_pc' = "send"
  /\ last_op' = "worker"
  /\ UNCHANGED <<closed, n_dist, n_hit, n_alive>>
  /\ senderGhostUnchanged /\ receiverUnchanged

\* PiClient._on_dist / _on_hit on the datagram m; the dispatcher maps no
\* handler to any other address.  <<dist_cm, pending_hit, last_rx_ts>>
dispatch(m, dist_cm, pending_hit, last_rx_ts, t) ==
  IF m.address = "/dist" THEN <<m.payload, pending_hit, t>>
  ELSE IF m.address = "/hit" THEN <<dist_cm, clamp_velocity(m.payload), t>>
  ELSE <<dist_cm, pending_hit, last_rx_ts>>

\* _run, outside the lock: client.send_message; the transport is reliable,
\* the datagram reaches the laptop's dispatcher
WorkerSend ==
  /\ worker_pc = "send"
  /\ rx_now' = rx_now + 1
  /\ \E b \in {dispatch(worker_msg, buf_dist_cm, buf_pending_hit,
                          buf_last_rx_ts, rx_now + 1)} :
       /\ buf_dist_cm' = b[1]
       /\ buf_pending_hit' = b[2]
       /\ buf_last_rx_ts' = b[3]
  /\ worker_msg' = NoMsg
  /\ worker_pc' = "top"
  /\ last_op' = "transmit"
  /\ UNCHANGED <<queue, closed, n_dist, n_hit, n_alive, snapshot, returned>>
  /\ senderGhostUnchanged

\* router_loop calls pi_client.consume_sensor_state()
Consume ==
  /\ \E r \in {consume(buf_dist_cm, buf_pending_hit, buf_last_rx_ts)} :
       /\ snapshot' = r[1]
       /\ buf_pending_hit' = r[2]
       /\ returned' =
            IF r[1].hit_velocity = None THEN returned
            ELSE [k \in 1..MaxHit |->
                    IF HitVelocityOf(k) = r[1].hit_velocity
                    THEN Min(returned[k] + 1, 2) ELSE returned[k]]
  /\ last_op' = "consume"
  /\ UNCHANGED <<queue, closed, worker_pc, worker_msg, n_dist, n_hit, n_alive,
                 buf_dist_cm, buf_last_rx_ts, rx_now>>
  /\ senderGhostUnchanged

\* _run with a failed send_message tried again on the same message
WorkerSendRetries ==
  /\ worker_pc = "send"
  /\ last_op' = "transmit_failed"
  /\ UNCHANGED <<queue, closed, worker_pc, worker_msg, n_dist, n_hit, n_alive>>
  /\ senderGhostUnchanged /\ receiverUnchanged

\* _run, outside the lock: client.send_message raises; the except clause
\* logs osc_send_error and the while loop goes on
WorkerSendFails ==
  /\ worker_pc = "send"
  /\ worker_msg' = NoMsg
  /\ worker_pc' = "top"
  /\ last_op' = "transmit_failed"
  /\ UNCHANGED <<queue, closed, n_dist, n_hit, n_alive>>
  /\ senderGhostUnchanged /\ receiverUnchanged

QueueLogInit == acc_log = <<>> /\ tx_log = <<>>

\* the enqueue of msg is put on record when _enqueue returned True
LogEnqueue(r, msg) ==
  /\ acc_log' = IF r[1] THEN Append(acc_log, msg) ELSE acc_log
  /\ UNCHANGED tx_log

\* the call of client.send_message on the dequeued message is put on record
LogTransmit(ok) ==
  /\ tx_log' = Append(tx_log, [msg |-> worker_msg, ok |-> ok])
  /\ UNCHANGED acc_log

\* the sender with its history, a transport that may raise and callers
\* that may call at any time, also after close()
QueueLogNext ==
  /\ \/ SendDist /\ LogEnqueue(send_dist(queue, closed, n_dist + 1),
                               [address |-> "/dist", payload |-> n_dist + 1])
     \/ SendHit /\ LogEnqueue(send_hit(queue, closed, HitVelocityOf(n_hit + 1)),
                              [address |-> "/hit",
                               payload |-> HitVelocityOf(n_hit + 1)])
     \/ SendAlive /\ LogEnqueue(send_alive(queue, closed, n_alive + 1),
                                [address |-> "/alive", payload |-> n_alive + 1])
     \/ Close /\ UNCHANGED queueLogVars
     \/ WorkerLocked /\ UNCHANGED queueLogVars
     \/ WorkerSend /\ LogTransmit(TRUE)
     \/ WorkerSendFails /\ LogTransmit(FALSE)
  /\ UNCHANGED <<routerVars, hitVars, schedVars, cameraVars,
               mappingVars, velocityVars, loopVars, cancelVars, lifecycleVars, driverVars, gestureVars, snapshotVars>>

\* run() of the sensor node calls the sender from _run_loop only and
\* closes it once, in the finally clause that follows the loop
TelemetryNext ==
  /\ \/ ~closed /\ SendDist
     \/ ~closed /\ SendHit
     \/ ~closed /\ SendAlive
     \/ ~closed /\ Close
     \/ WorkerLocked
     \/ WorkerSend
     \/ Consume
  /\ UNCHANGED <<routerVars, hitVars, schedVars, cameraVars,
               mappingVars, velocityVars, loopVars, queueLogVars,
               cancelVars, lifecycleVars, driverVars, gestureVars, snapshotVars>>

(***************************************************************************)
(* The two fixed-rate loops: rasp_pi_node/main.py _run_loop and            *)
(* laptop_node/main.py router_loop.  Times are clock units.                *)
(***************************************************************************)
Period == 2           \* period = 1.0 / cycle_hz, in clock units
TickInterval == 3     \* tick_interval = 1.0 / tick_hz, in clock units
AliveInterval == 4    \* the 1.0 s between heartbeats, in clock units
MaxWork == 5          \* longest processing time of one cycle
MaxOversleep == 1     \* how much later than asked a sleep may return
MaxCycles == 3        \* cycles of each loop

\* next_tick = now + period: the deadline re-anchored on the current time
next_tick_from_now(next_tick, t, period) == t + period

\* next_tick += period
advance_next_tick(next_tick, t, period) == next_tick + period

\* next_tick += tick_interval
advance_router_tick(next_tick, t, tick_interval) == next_tick + tick_interval

RECURSIVE alive_loop(_, _, _)
\* while now >= next_alive: alive_seq += 1; send_alive; next_alive += 1.0
alive_loop(t, nxt, seq) ==
  IF t >= nxt THEN alive_loop(t, nxt + AliveInterval, seq + 1)
  ELSE <<nxt, seq>>

SchedInit ==
  /\ pi_clock = 0
  /\ pi_next_tick = 0
  /\ next_alive = AliveInterval
  /\ alive_seq = 0
  /\ loop_clock = 0
  /\ loop_next_tick = 0
  /\ pi_deadlines = <<>>
  /\ loop_deadlines = <<>>
  /\ pi_overran = FALSE
  /\ loop_overran = FALSE
  /\ pi_last = [ran |-> FALSE, slept |-> FALSE, late |-> FALSE, work |-> 0]
  /\ loop_last = [ran |-> FALSE, slept |-> FALSE, late |-> FALSE, work |-> 0]

\* one iteration of the while loop of _run_loop: sleep to next_tick when it
\* lies ahead, advance next_tick, process for work units
SensorCycle(oversleep, work) ==
  /\ Len(pi_deadlines) < MaxCycles
  /\ LET sleep_time == pi_next_tick - pi_clock
         now2 == IF sleep_time > 0 THEN pi_clock + sleep_time + oversleep
                 ELSE pi_clock
         a == alive_loop(now2, next_alive, alive_seq)
     IN /\ pi_deadlines' = Append(pi_deadlines, pi_next_tick)
        /\ pi_next_tick' = advance_next_tick(pi_next_tick, now2, Period)
        /\ next_alive' = a[1]
        /\ alive_seq' = a[2]
        /\ pi_clock' = now2 + work
        /\ pi_overran' = (pi_overran \/ work > Period)
        /\ pi_last' = [ran |-> TRUE, slept |-> sleep_time > 0,
                       late |-> sleep_time < 0, work |-> work]
  /\ UNCHANGED <<loop_clock, loop_next_tick, loop_deadlines, loop_overran,
                 loop_last>>

\* one iteration of the while loop of router_loop: advance next_tick,
\* process for work units, sleep max(0, next_tick - now)
RouterCycle(oversleep, work) ==
  /\ Len(loop_deadlines) < MaxCycles
  /\ LET nt == advance_router_tick(loop_next_tick, loop_clock, TickInterval)
         after == loop_clock + work
         sleep_time == Max(0, nt - after)
     IN /\ loop_next_tick' = nt
        /\ loop_deadlines' = Append(loop_deadlines, nt)
        /\ loop_clock' = IF sleep_time # 0 THEN after + sleep_time + oversleep
                         ELSE after
        /\ loop_overran' = (loop_overran \/ work > TickInterval)
        /\ loop_last' = [ran |-> TRUE, slept |-> sleep_time # 0,
                         late |-> nt < after, work |-> work]
  /\ UNCHANGED <<pi_clock, pi_next_tick, next_alive, alive_seq, pi_deadlines,
                 pi_overran, pi_last>>

SchedNext ==
  /\ \E oversleep \in 0..MaxOversleep, work \in 0..MaxWork :
       \/ SensorCycle(oversleep, work)
       \/ RouterCycle(oversleep, work)
  /\ UNCHANGED <<routerVars, hitVars, telemetryVars, cameraVars,
               mappingVars, velocityVars, loopVars, queueLogVars,
               cancelVars, lifecycleVars, driverVars, gestureVars, snapshotVars>>

\* run() has installed the signal handlers and entered _run_loop;
\* async_main() has created the task of router_loop
CancelInit ==
  /\ stop_flag = FALSE
  /\ sensor_running = TRUE
  /\ cancel_requested = FALSE
  /\ loop_task = "running"
  /\ ticks_after_cancel = 0
  /\ datagram_pending = FALSE

\* the signal handler of the sensor node: stop_flag["stop"] = True
RequestStop ==
  /\ ~stop_flag
  /\ stop_flag' = TRUE
  /\ UNCHANGED <<sensor_running, cancel_requested, loop_task,
                 ticks_after_cancel, datagram_pending>>
  /\ UNCHANGED schedVars

\* cancel() is called on the task of router_loop once the task has
\* started: CancelledError is thrown into the task at its next await
RequestCancel ==
  /\ ~cancel_requested /\ loop_task = "running" /\ loop_last.ran
  /\ cancel_requested' = TRUE
  /\ UNCHANGED <<stop_flag, sensor_running, loop_task, ticks_after_cancel,
                 datagram_pending>>
  /\ UNCHANGED schedVars

\* a datagram reaches the socket of the OSC server: its handler is run by
\* the event loop, when the event loop runs
DatagramArrives ==
  /\ ~datagram_pending /\ loop_task = "running"
  /\ datagram_pending' = TRUE
  /\ UNCHANGED <<stop_flag, sensor_running, cancel_requested, loop_task,
                 ticks_after_cancel>>
  /\ UNCHANGED schedVars

\* the test 'while not stop_flag["stop"]' of _run_loop and, when it
\* passes, one iteration
CancellableSensorCycle(oversleep, work) ==
  /\ sensor_running
  /\ IF stop_flag
     THEN sensor_running' = FALSE /\ UNCHANGED schedVars
     ELSE SensorCycle(oversleep, work) /\ UNCHANGED sensor_running
  /\ UNCHANGED <<stop_flag, cancel_requested, loop_task, ticks_after_cancel,
                 datagram_pending>>

\* one iteration of 'while True' of router_loop in its task: the task
\* gives the event loop a chance to run, to deliver a cancellation or to
\* run a handler, only in 'await asyncio.sleep(sleep_time)', which is
\* executed only 'if sleep_time'
CancellableRouterCycle(oversleep, work) ==
  /\ loop_task = "running"
  /\ RouterCycle(oversleep, work)
  /\ ticks_after_cancel' =
       IF cancel_requested THEN ticks_after_cancel + 1 ELSE ticks_after_cancel
  /\ loop_task' =
       IF cancel_requested /\ loop_last'.slept THEN "cancelled" ELSE "running"
  /\ datagram_pending' = IF loop_last'.slept THEN FALSE ELSE datagram_pending
  /\ UNCHANGED <<stop_flag, sensor_running, cancel_requested>>

CancelNext ==
  /\ \/ RequestStop
     \/ RequestCancel
     \/ DatagramArrives
     \/ \E oversleep \in 0..MaxOversleep, work \in 0..MaxWork :
          \/ CancellableSensorCycle(oversleep, work)
          \/ CancellableRouterCycle(oversleep, work)
  /\ UNCHANGED <<routerVars, hitVars, telemetryVars, cameraVars,
               mappingVars, velocityVars, loopVars, queueLogVars,
               lifecycleVars, driverVars, gestureVars, snapshotVars>>

(***************************************************************************)
(* The resources of the two nodes: rasp_pi_node/main.py run() and          *)
(* laptop_node/main.py async_main(), statement by statement.  A statement  *)
(* that can raise either completes or raises (fail).                       *)
(***************************************************************************)
LifecycleInit ==
  /\ run_pc = "OscTx" /\ osc_open = FALSE /\ sensor_open = FALSE
  /\ main_pc = "open_musical"
  /\ musical_open = FALSE /\ control_open = FALSE /\ receiver_open = FALSE

\* run(): osc = OscTx(...); sensor = SimHCSR04(...) or HCSR04(...); the
\* test of cycle_hz and the construction of HitState; then
\* try: _run_loop(...) finally: sensor.close(); osc.close()
RunStep(fail) ==
  /\ run_pc # "exited"
  /\ CASE run_pc = "OscTx" ->
            /\ osc_open' = ~fail
            /\ run_pc' = IF fail THEN "exited" ELSE "sensor"
            /\ UNCHANGED sensor_open
       [] run_pc = "sensor" ->
            /\ sensor_open' = ~fail
            /\ run_pc' = IF fail THEN "exited" ELSE "cycle_hz"
            /\ UNCHANGED osc_open
       [] run_pc = "cycle_hz" ->
            /\ run_pc' = IF fail THEN "exited" ELSE "_run_loop"
            /\ UNCHANGED <<osc_open, sensor_open>>
       [] run_pc = "_run_loop" ->
            /\ run_pc' = "sensor.close"
            /\ UNCHANGED <<osc_open, sensor_open>>
       [] run_pc = "sensor.close" ->
            /\ sensor_open' = IF fail THEN sensor_open ELSE FALSE
            /\ run_pc' = IF fail THEN "exited" ELSE "osc.close"
            /\ UNCHANGED osc_open
       [] run_pc = "osc.close" ->
            /\ osc_open' = FALSE
            /\ run_pc' = "exited"
            /\ UNCHANGED sensor_open
  /\ UNCHANGED <<main_pc, musical_open, control_open, receiver_open>>

\* async_main(): open_outputs opens the musical port, then the control
\* port; PiClient(...), resolve_camera_callable(...), MusicRouter(...);
\* try: await pi_client.start(); await loop_task
\* finally: await pi_client.stop(); midi_outputs.close(), which closes the
\* musical port, then the control port
AsyncMainStep(fail) ==
  /\ main_pc # "exited"
  /\ CASE main_pc = "open_musical" ->
            /\ musical_open' = ~fail
            /\ main_pc' = IF fail THEN "exited" ELSE "open_control"
            /\ UNCHANGED <<control_open, receiver_open>>
       [] main_pc = "open_control" ->
            /\ control_open' = ~fail
            /\ main_pc' = IF fail THEN "exited" ELSE "setup"
            /\ UNCHANGED <<musical_open, receiver_open>>
       [] main_pc = "setup" ->
            /\ main_pc' = IF fail THEN "exited" ELSE "pi_client.start"
            /\ UNCHANGED <<musical_open, control_open, receiver_open>>
       [] main_pc = "pi_client.start" ->
            /\ receiver_open' = ~fail
            /\ main_pc' = IF fail THEN "pi_client.stop" ELSE "loop_task"
            /\ UNCHANGED <<musical_open, control_open>>
       [] main_pc = "loop_task" ->
            /\ main_pc' = "pi_client.stop"
            /\ UNCHANGED <<musical_open, control_open, receiver_open>>
       [] main_pc = "pi_client.stop" ->
            /\ receiver_open' = FALSE
            /\ main_pc' = "musical.close"
            /\ UNCHANGED <<musical_open, control_open>>
       [] main_pc = "musical.close" ->
            /\ musical_open' = IF fail THEN musical_open ELSE FALSE
            /\ main_pc' = IF fail THEN "exited" ELSE "control.close"
            /\ UNCHANGED <<control_open, receiver_open>>
       [] main_pc = "control.close" ->
            /\ control_open' = FALSE
            /\ main_pc' = "exited"
            /\ UNCHANGED <<musical_open, receiver_open>>
  /\ UNCHANGED <<run_pc, osc_open, sensor_open>>

LifecycleNext ==
  /\ \E fail \in BOOLEAN : RunStep(fail) \/ AsyncMainStep(fail)
  /\ UNCHANGED <<routerVars, hitVars, telemetryVars, schedVars, cameraVars,
               mappingVars, velocityVars, loopVars, queueLogVars, cancelVars,
               driverVars, gestureVars, snapshotVars>>

(***************************************************************************)
(* rasp_pi_node/hcsr04.py.  Ticks are microseconds of pigpio's wrapping    *)
(* tick counter; each method body that runs under 'with self._lock' is one *)
(* step.                                                                   *)
(***************************************************************************)
TickMod == 8          \* the tick counter wraps at this value
TimeoutUs == 3        \* timeout_us of the model
MaxTickStep == 5      \* largest gap between two edges
MaxEchoes == 3        \* echoes stored

\* pigpio.tickDiff(t1, t2): t2 - t1 on the wrapping counter
tickDiff(t1, t2) == (t2 - t1 + TickMod) % TickMod

DriverInit ==
  drv = [in_flight |-> FALSE, start_tick |-> None, last_echo_us |-> None,
         tick |-> 0, echo_id |-> 0, n_echo |-> 0,
         returned |-> [k \in 1..MaxEchoes |-> 0],
         result |-> None, op |-> "init"]

\* _handle_echo with level == pigpio.TIMEOUT
handle_timeout(d) ==
  [d EXCEPT !.in_flight = FALSE, !.start_tick = None]

\* _handle_echo with level == 1
handle_rise(d, tick) ==
  [d EXCEPT !.start_tick = tick, !.in_flight = TRUE]

\* _handle_echo with level == 0
handle_fall(d, tick) ==
  IF d.start_tick = None THEN d
  ELSE LET pulse_us == tickDiff(d.start_tick, tick)
           stored == 0 < pulse_us /\ pulse_us <= TimeoutUs
       IN [d EXCEPT !.last_echo_us = IF stored THEN pulse_us ELSE @,
                    !.echo_id = IF stored THEN d.n_echo + 1 ELSE @,
                    !.n_echo = IF stored THEN @ + 1 ELSE @,
                    !.in_flight = FALSE, !.start_tick = None]

\* read_last_echo_us returning the echo without clearing it
read_last_echo_us_keep(d) ==
  [d EXCEPT !.result = d.last_echo_us,
            !.returned = IF d.last_echo_us = None THEN @
                         ELSE [@ EXCEPT ![d.echo_id] = Min(@ + 1, 2)]]

\* read_last_echo_us: value = last_echo_us; last_echo_us = None
read_last_echo_us(d) ==
  [d EXCEPT !.result = d.last_echo_us, !.last_echo_us = None,
            !.returned = IF d.last_echo_us = None THEN @
                         ELSE [@ EXCEPT ![d.echo_id] = Min(@ + 1, 2)]]

\* the callback thread delivers an edge or a watchdog timeout of the echo
\* pin, dt ticks after the last one
HandleEcho(level, dt) ==
  /\ drv.n_echo < MaxEchoes
  /\ LET tick == (drv.tick + dt) % TickMod
         d == [drv EXCEPT !.tick = tick, !.op = "edge"]
     IN drv' = CASE level = "timeout" -> handle_timeout(d)
                 [] level = "high" -> handle_rise(d, tick)
                 [] level = "low" -> handle_fall(d, tick)

\* the acquisition loop calls sensor.trigger(): in_flight is read under the
\* lock, the trigger pulse is emitted when it is false
Trigger ==
  drv' = [drv EXCEPT !.result = ~drv.in_flight, !.op = "trigger"]

\* the acquisition loop calls sensor.read_last_echo_us()
ReadLastEcho ==
  drv' = [read_last_echo_us(drv) EXCEPT !.op = "read"]

DriverNext ==
  /\ \/ \E level \in {"timeout", "high", "low"}, dt \in 0..MaxTickStep :
          HandleEcho(level, dt)
     \/ Trigger
     \/ ReadLastEcho
  /\ UNCHANGED <<routerVars, hitVars, telemetryVars, schedVars, cameraVars,
               mappingVars, velocityVars, loopVars, queueLogVars, cancelVars,
               lifecycleVars, gestureVars, snapshotVars>>

(***************************************************************************)
(* laptop_node/camera_interface.py.  Times are milliseconds.               *)
(***************************************************************************)
SELECT_STABLE_MS == 400
SELECT_COMMIT_MS == 1000
ARM_COMBO_DWELL_MS == 250
SELECT_IGNORE_IDLE == TRUE
FIST_STABLE_MS == 150
FIST_MAX_UP == 0
HAND_PRESENT_GRACE_MS == 200
PINCH_THRESH_PX == 40
PINCH_HYST == 6

CamStart == 200       \* time.time() when the controller is constructed
MaxCamTime == 2000    \* camera clock horizon
FrameGaps == {200, 400}  \* time between two iterations of the capture loop

\* settings.instruments
instruments == cam_instruments

Fingers == {"thumb", "index", "middle", "ring", "pinky"}
\* what _infer reports for a frame: no hand, or the fingers that are up
NoHand == {"none"}
Poses == {NoHand, {}, {"index"}, {"index", "middle", "ring"},
          {"index", "middle", "ring", "pinky"}, Fingers}
\* thumb-to-index distances in pixels: pinched, inside the hysteresis band,
\* apart
PinchPx == {30, 43, 50}
\* the poses, distances and keys of the frames of CameraSpec
SelectPoses == Poses \ {{"index"}}
SelectPinchPx == {30, 50}
SelectKeys == {"none", "p"}
\* cv2.waitKey: no key, or one of the keys that change the gesture state
Keys == {"none", "p", "r", "space", "i"}

\* fcount of _infer
fcount_of(pose) == IF pose = NoHand THEN 0 ELSE Cardinality(pose)

\* the arm_combo argument built in _run
arm_combo_of(pose) ==
  pose # NoHand /\ "thumb" \notin pose /\ "middle" \notin pose
               /\ "ring" \notin pose

_map_fingers_to_instrument_idx(fcount) ==
  IF 1 <= fcount /\ fcount <= Len(instruments) THEN fcount - 1 ELSE None

_current_instrument_label(c) ==
  IF c.instrument_idx < 0 THEN "" ELSE instruments[c.instrument_idx + 1]

\* _run_fsm, the block for start_state == "instrument select" up to the
\* dwell commit; dwell records that the commit branch ran
select_dwell(c, fcount, t) ==
  LET c1 == IF fcount # c.last_fc
            THEN [c EXCEPT !.last_fc = fcount, !.last_fc_change = t] ELSE c
      stable_ms == t - c1.last_fc_change
      cand_idx == _map_fingers_to_instrument_idx(
                    IF c1.last_fc = None THEN 0 ELSE c1.last_fc)
      c2 == IF ~(SELECT_IGNORE_IDLE /\ c1.last_fc = 5)
            THEN [c1 EXCEPT !.candidate_idx = cand_idx] ELSE c1
  IN IF stable_ms >= SELECT_STABLE_MS
     THEN IF /\ stable_ms >= SELECT_COMMIT_MS
             /\ cand_idx # None
             /\ cand_idx # c2.instrument_idx
          THEN [c2 EXCEPT !.instrument_idx = cand_idx, !.dwell = TRUE]
          ELSE c2
     ELSE c1

\* the fist edge of the instrument-select block without the reset of the
\* arm gate
select_fist_keep_gate(c, is_fist) ==
  IF is_fist /\ ~c.prev_is_fist
  THEN [c EXCEPT !.instrument_idx = IF c.candidate_idx # None
                                       /\ c.candidate_idx >= 0
                                    THEN c.candidate_idx ELSE @,
                 !.camera_state = "play"]
  ELSE c

\* _run_fsm, the fist edge of the instrument-select block
select_fist(c, is_fist) ==
  IF is_fist /\ ~c.prev_is_fist
  THEN [c EXCEPT !.instrument_idx = IF c.candidate_idx # None
                                       /\ c.candidate_idx >= 0
                                    THEN c.candidate_idx ELSE @,
                 !.camera_state = "play",
                 !.arm_ready = FALSE,
                 !.prev_arm_combo = TRUE,
                 !.arm_start_ms = 0]
  ELSE c

\* the play block arming on the first frame after the rising edge of the
\* combo, whatever time has passed
play_block_no_dwell(c, arm_combo, hand_present, is_fist, t) ==
  LET c1 == IF hand_present /\ is_fist /\ ~c.prev_is_fist
            THEN [c EXCEPT !.camera_state = "instrument select"] ELSE c
      c2 == IF ~c1.arm_ready /\ ~arm_combo
            THEN [c1 EXCEPT !.arm_ready = TRUE] ELSE c1
      c3 == IF c2.arm_ready /\ arm_combo /\ ~c2.prev_arm_combo
            THEN [c2 EXCEPT !.arm_start_ms = t] ELSE c2
      c4 == IF /\ c3.arm_ready /\ arm_combo /\ c3.prev_arm_combo
               /\ c3.arm_start_ms > 0
            THEN [c3 EXCEPT !.recording = TRUE, !.arm_start_ms = 0] ELSE c3
      c5 == IF ~arm_combo THEN [c4 EXCEPT !.arm_start_ms = 0] ELSE c4
  IN [c5 EXCEPT !.prev_arm_combo = arm_combo]

\* _run_fsm, the block for start_state == "play" and not recording
play_block(c, arm_combo, hand_present, is_fist, t) ==
  LET c1 == IF hand_present /\ is_fist /\ ~c.prev_is_fist
            THEN [c EXCEPT !.camera_state = "instrument select"] ELSE c
      c2 == IF ~c1.arm_ready /\ ~arm_combo
            THEN [c1 EXCEPT !.arm_ready = TRUE] ELSE c1
      c3 == IF c2.arm_ready /\ arm_combo /\ ~c2.prev_arm_combo
            THEN [c2 EXCEPT !.arm_start_ms = t] ELSE c2
      c4 == IF /\ c3.arm_ready /\ arm_combo /\ c3.prev_arm_combo
               /\ c3.arm_start_ms > 0
               /\ t - c3.arm_start_ms >= ARM_COMBO_DWELL_MS
            THEN [c3 EXCEPT !.recording = TRUE, !.arm_start_ms = 0] ELSE c3
      c5 == IF ~arm_combo THEN [c4 EXCEPT !.arm_start_ms = 0] ELSE c4
  IN [c5 EXCEPT !.prev_arm_combo = arm_combo]

\* _run_fsm, the block for start_state == "play" and recording
recording_block(c, hand_present, is_fist) ==
  IF hand_present /\ is_fist /\ ~c.prev_is_fist
  THEN [c EXCEPT !.recording = FALSE, !.camera_state = "instrument select"]
  ELSE c

\* _run_fsm with the recording block as the alternative of the play block:
\* it tests the recording flag the frame started with
_run_fsm_elif(c, fcount, arm_combo, hand_present, t) ==
  LET is_fist_raw == fcount <= FIST_MAX_UP
      c1 == IF is_fist_raw # c.last_fist_raw
            THEN [c EXCEPT !.last_fist_raw = is_fist_raw,
                           !.last_fist_change = t]
            ELSE c
      is_fist_stable == t - c1.last_fist_change >= FIST_STABLE_MS
      is_fist == is_fist_raw /\ is_fist_stable
      start_state == c.camera_state
      c2 == IF start_state = "instrument select"
            THEN select_fist(select_dwell(c1, fcount, t), is_fist) ELSE c1
      c3 == IF start_state = "play" /\ ~c2.recording
            THEN play_block(c2, arm_combo, hand_present, is_fist, t) ELSE c2
      c4 == IF start_state = "play" /\ c2.recording
            THEN recording_block(c3, hand_present, is_fist) ELSE c3
  IN [c4 EXCEPT !.prev_is_fist = is_fist]

\* _run_fsm trusting the raw fist reading at once
_run_fsm_no_debounce(c, fcount, arm_combo, hand_present, t) ==
  LET is_fist_raw == fcount <= FIST_MAX_UP
      c1 == IF is_fist_raw # c.last_fist_raw
            THEN [c EXCEPT !.last_fist_raw = is_fist_raw,
                           !.last_fist_change = t]
            ELSE c
      is_fist == is_fist_raw
      start_state == c.camera_state
      c2 == IF start_state = "instrument select"
            THEN select_fist(select_dwell(c1, fcount, t), is_fist) ELSE c1
      c3 == IF start_state = "play" /\ ~c2.recording
            THEN play_block(c2, arm_combo, hand_present, is_fist, t) ELSE c2
      c4 == IF start_state = "play" /\ c3.recording
            THEN recording_block(c3, hand_present, is_fist) ELSE c3
  IN [c4 EXCEPT !.prev_is_fist = is_fist]

_run_fsm(c, fcount, arm_combo, hand_present, t) ==
  LET is_fist_raw == fcount <= FIST_MAX_UP
      c1 == IF is_fist_raw # c.last_fist_raw
            THEN [c EXCEPT !.last_fist_raw = is_fist_raw,
                           !.last_fist_change = t]
            ELSE c
      is_fist_stable == t - c1.last_fist_change >= FIST_STABLE_MS
      is_fist == is_fist_raw /\ is_fist_stable
      start_state == c.camera_state
      c2 == IF start_state = "instrument select"
            THEN select_fist(select_dwell(c1, fcount, t), is_fist) ELSE c1
      c3 == IF start_state = "play" /\ ~c2.recording
            THEN play_block(c2, arm_combo, hand_present, is_fist, t) ELSE c2
      c4 == IF start_state = "play" /\ c3.recording
            THEN recording_block(c3, hand_present, is_fist) ELSE c3
  IN [c4 EXCEPT !.prev_is_fist = is_fist]

\* _handle_pinch with one threshold for both directions
_handle_pinch_no_hysteresis(c, pinch_px, arm_combo) ==
  IF c.camera_state # "play"
  THEN [c EXCEPT !.note_on = FALSE, !.prev_pinch = FALSE]
  ELSE IF c.instrument_idx < 0
  THEN [c EXCEPT !.note_on = FALSE, !.prev_pinch = FALSE]
  ELSE IF pinch_px = None THEN c
  ELSE LET is_pinch == pinch_px < PINCH_THRESH_PX /\ ~arm_combo
       IN [c EXCEPT !.note_on = IF is_pinch /\ ~c.prev_pinch THEN TRUE
                                 ELSE IF ~is_pinch /\ c.prev_pinch THEN FALSE
                                 ELSE @,
                    !.prev_pinch = is_pinch]

_handle_pinch(c, pinch_px, arm_combo) ==
  IF c.camera_state # "play"
  THEN [c EXCEPT !.note_on = FALSE, !.prev_pinch = FALSE]
  ELSE IF c.instrument_idx < 0
  THEN [c EXCEPT !.note_on = FALSE, !.prev_pinch = FALSE]
  ELSE IF pinch_px = None THEN c
  ELSE LET on_th == PINCH_THRESH_PX
           off_th == PINCH_THRESH_PX + PINCH_HYST
           is_pinch == /\ pinch_px < (IF c.prev_pinch THEN off_th ELSE on_th)
                       /\ ~arm_combo
       IN [c EXCEPT !.note_on = IF is_pinch /\ ~c.prev_pinch THEN TRUE
                                 ELSE IF ~is_pinch /\ c.prev_pinch THEN FALSE
                                 ELSE @,
                    !.prev_pinch = is_pinch]

\* _handle_key for the keys that change the gesture state
_handle_key(c, key) ==
  IF key = "p"
  THEN [c EXCEPT !.camera_state = IF @ # "play" THEN "play"
                                   ELSE "instrument select"]
  ELSE IF key = "r" THEN [c EXCEPT !.recording = ~@]
  ELSE IF key = "space" THEN [c EXCEPT !.note_on = ~@]
  ELSE IF key = "i"
  THEN [c EXCEPT !.instrument_idx = (@ + 1) % Len(instruments)]
  ELSE c

\* one iteration of _run with a frame: _infer, _run_fsm, _handle_pinch,
\* _handle_key
run_frame(c, pose, pinch_px, key, t) ==
  LET present == pose # NoHand
      c0 == [c EXCEPT !.dwell = FALSE]
      c1 == IF present THEN [c0 EXCEPT !.last_hand_seen = t] ELSE c0
      present_smoothed ==
        present \/ t - c1.last_hand_seen <= HAND_PRESENT_GRACE_MS
      c2 == IF present
            THEN _handle_pinch(
                   _run_fsm(c1, fcount_of(pose), arm_combo_of(pose),
                            present_smoothed, t),
                   pinch_px, arm_combo_of(pose))
            ELSE _handle_pinch(_run_fsm(c1, 0, FALSE, present_smoothed, t),
                               None, FALSE)
  IN _handle_key(c2, key)

CameraInit ==
  /\ cam_now = CamStart
  /\ cam = [instrument_idx |-> -1, candidate_idx |-> None, last_fc |-> None,
            last_fc_change |-> CamStart, prev_is_fist |-> FALSE,
            prev_arm_combo |-> FALSE, arm_ready |-> FALSE,
            arm_start_ms |-> 0, last_fist_raw |-> FALSE,
            last_fist_change |-> CamStart, last_hand_seen |-> CamStart,
            prev_pinch |-> FALSE, camera_state |-> "instrument select",
            recording |-> FALSE, note_on |-> FALSE, dwell |-> FALSE]
  /\ fc_run = [val |-> None, start |-> CamStart, in_select |-> TRUE]
  /\ cam_last = [fsm |-> FALSE, key |-> "none", select |-> FALSE]

\* an iteration of the capture loop that has a frame
Frame(gap, pose, pinch_px, key) ==
  /\ cam_now + gap <= MaxCamTime
  /\ cam_now' = cam_now + gap
  /\ cam' = run_frame(cam, pose, pinch_px, key, cam_now + gap)
  /\ fc_run' =
       LET in_sel == cam.camera_state = "instrument select"
       IN IF fcount_of(pose) # fc_run.val
          THEN [val |-> fcount_of(pose), start |-> cam_now + gap,
                in_select |-> in_sel]
          ELSE [fc_run EXCEPT !.in_select = @ /\ in_sel]
  /\ cam_last' = [fsm |-> TRUE, key |-> key,
                  select |-> cam.camera_state = "instrument select"]

\* an iteration without a frame (no capture, a failed read, the HUD off):
\* key = -1, nothing but the clock moves
NoFrame(gap) ==
  /\ cam_now + gap <= MaxCamTime
  /\ cam_now' = cam_now + gap
  /\ cam' = [cam EXCEPT !.dwell = FALSE]
  /\ cam_last' = [fsm |-> FALSE, key |-> "none", select |-> FALSE]
  /\ UNCHANGED fc_run

CameraNext ==
  /\ \/ \E gap \in FrameGaps, pose \in SelectPoses,
           pinch_px \in SelectPinchPx,
           key \in SelectKeys : Frame(gap, pose, pinch_px, key)
     \/ \E gap \in FrameGaps : NoFrame(gap)
  /\ UNCHANGED <<routerVars, hitVars, telemetryVars, schedVars,
               mappingVars, velocityVars, loopVars, queueLogVars,
               cancelVars, lifecycleVars, driverVars, gestureVars, snapshotVars>>

(***************************************************************************)
(* laptop_node/camera_interface.py driven by gestures alone: every frame   *)
(* has key = -1, the controller is constructed with one of several         *)
(* instrument tuples, and cam_in keeps what the frames showed.             *)
(***************************************************************************)
\* the tuples given as settings.instruments
InstrumentSets == {<<>>, <<"synth", "drums", "lead">>,
                   <<"synth", "drums", "lead", "bass", "pad">>}
\* the poses and the time between two iterations of the gesture-driven frames
GesturePoses == Poses \ {{"index", "middle", "ring", "pinky"}}
\* the poses of the specifications with finer steps: no hand, a fist, the
\* index finger alone (arm combo, count 1), three fingers (no combo)
ReducedPoses == {NoHand, {}, {"index"}, {"index", "middle", "ring"}}
GestureGaps == {200, 400}

GestureInit ==
  /\ cam_instruments = <<"synth", "drums", "lead">>
  /\ cam_in = [pose |-> NoHand, pinch_px |-> None,
               start_state |-> "instrument select", start_rec |-> FALSE,
               fist_edge |-> FALSE, cleared |-> FALSE, combo_since |-> None,
               fist_since |-> None]

\* CameraController.__init__: instruments = settings.instruments or ("lead",)
CameraConstruct(instrs) ==
  /\ cam_now = CamStart /\ ~cam_last.fsm
  /\ cam_instruments' = IF instrs = <<>> THEN <<"lead">> ELSE instrs
  /\ UNCHANGED <<cameraVars, cam_in>>

\* an iteration of the capture loop with a frame and no key pressed
GestureFrame(gap, pose, pinch_px) ==
  /\ Frame(gap, pose, pinch_px, "none")
  /\ cam_in' =
       LET t == cam_now + gap
           combo == arm_combo_of(pose)
           in_play == cam.camera_state = "play"
           entered == ~in_play /\ cam'.camera_state = "play"
           cleared == IF entered THEN FALSE
                      ELSE cam_in.cleared \/ (in_play /\ ~combo)
           rose == combo /\ ~arm_combo_of(cam_in.pose)
       IN [pose |-> pose,
           pinch_px |-> IF pose = NoHand THEN None ELSE pinch_px,
           start_state |-> cam.camera_state, start_rec |-> cam.recording,
           fist_edge |-> cam'.prev_is_fist /\ ~cam.prev_is_fist,
           cleared |-> cleared,
           combo_since |-> IF entered \/ ~in_play \/ ~combo THEN None
                           ELSE IF rose /\ cam_in.cleared THEN t
                           ELSE cam_in.combo_since,
           fist_since |-> IF fcount_of(pose) > FIST_MAX_UP THEN None
                          ELSE IF cam_in.fist_since = None THEN t
                          ELSE cam_in.fist_since]
  /\ UNCHANGED cam_instruments

GestureNext ==
  /\ \/ \E instrs \in InstrumentSets : CameraConstruct(instrs)
     \/ \E gap \in GestureGaps, pose \in GesturePoses, pinch_px \in PinchPx :
          GestureFrame(gap, pose, pinch_px)
     \/ \E gap \in GestureGaps : NoFrame(gap) /\ UNCHANGED gestureVars
  /\ UNCHANGED <<routerVars, hitVars, telemetryVars, schedVars,
               mappingVars, velocityVars, loopVars, queueLogVars,
               cancelVars, lifecycleVars, driverVars, snapshotVars>>

\* gesture-driven frames 100 or 200 ms apart, so that a raw fist can last
\* more than one frame and less than FIST_STABLE_MS
DebounceGaps == {100, 200}
MaxDebounceTime == 1400

DebounceNext ==
  /\ \E gap \in DebounceGaps, pose \in ReducedPoses :
       /\ cam_now + gap <= MaxDebounceTime
       /\ GestureFrame(gap, pose, 30)
  /\ UNCHANGED <<routerVars, hitVars, telemetryVars, schedVars,
               mappingVars, velocityVars, loopVars, queueLogVars,
               cancelVars, lifecycleVars, driverVars, snapshotVars>>

(***************************************************************************)
(* The capture thread and the router's snapshot().  snapshot() holds        *)
(* _state_lock; _run_fsm and _handle_pinch assign the gesture state without *)
(* it, so a snapshot can fall between two of their blocks.  A frame update  *)
(* is three steps: _run_fsm up to its recording block, the recording block  *)
(* with the update of _prev_is_fist, and _handle_pinch.  No key is pressed. *)
(***************************************************************************)
\* the mapping snapshot() returns
camera_snapshot(c) ==
  [instrument_state |-> _current_instrument_label(c),
   camera_state |-> c.camera_state,
   recording |-> c.recording,
   is_note_being_played |-> c.note_on]

\* is_fist of _run_fsm once _last_fist_change is up to date
is_fist_of(c, fcount, t) ==
  fcount <= FIST_MAX_UP /\ t - c.last_fist_change >= FIST_STABLE_MS

\* _run up to the call of _run_fsm, and _run_fsm up to its recording block
fsm_before_recording_block(c, pose, t) ==
  LET present == pose # NoHand
      c0 == [c EXCEPT !.dwell = FALSE]
      c1 == IF present THEN [c0 EXCEPT !.last_hand_seen = t] ELSE c0
      hand_present ==
        present \/ t - c1.last_hand_seen <= HAND_PRESENT_GRACE_MS
      fcount == fcount_of(pose)
      is_fist_raw == fcount <= FIST_MAX_UP
      c2 == IF is_fist_raw # c1.last_fist_raw
            THEN [c1 EXCEPT !.last_fist_raw = is_fist_raw,
                            !.last_fist_change = t]
            ELSE c1
      is_fist == is_fist_of(c2, fcount, t)
      start_state == c.camera_state
      c3 == IF start_state = "instrument select"
            THEN select_fist(select_dwell(c2, fcount, t), is_fist) ELSE c2
  IN IF start_state = "play" /\ ~c3.recording
     THEN play_block(c3, arm_combo_of(pose), hand_present, is_fist, t)
     ELSE c3

SnapshotInit ==
  /\ upd = [pc |-> "idle", pose |-> NoHand, pinch_px |-> None,
            start_state |-> "instrument select", hand_present |-> FALSE,
            start |-> [instrument_state |-> "",
                       camera_state |-> "instrument select",
                       recording |-> FALSE,
                       is_note_being_played |-> FALSE]]
  /\ snap = [instrument_state |-> "", camera_state |-> "instrument select",
             recording |-> FALSE, is_note_being_played |-> FALSE]
  /\ seen = {}

\* the capture thread takes a frame and runs _run_fsm up to the recording
\* block
UpdateFsm(gap, pose, pinch_px) ==
  /\ upd.pc = "idle"
  /\ cam_now + gap <= MaxCamTime
  /\ cam_now' = cam_now + gap
  /\ cam' = fsm_before_recording_block(cam, pose, cam_now + gap)
  /\ upd' = [pc |-> "recording", pose |-> pose,
             pinch_px |-> IF pose = NoHand THEN None ELSE pinch_px,
             start_state |-> cam.camera_state,
             hand_present |->
               \/ pose # NoHand
               \/ cam_now + gap - cam.last_hand_seen
                    <= HAND_PRESENT_GRACE_MS,
             start |-> camera_snapshot(cam)]
  /\ seen' = {}
  /\ UNCHANGED <<snap, cam_last, fc_run>>

\* the recording block of _run_fsm and the update of _prev_is_fist
UpdateRecording ==
  /\ upd.pc = "recording"
  /\ cam' =
       LET is_fist == is_fist_of(cam, fcount_of(upd.pose), cam_now)
           c4 == IF upd.start_state = "play" /\ cam.recording
                 THEN recording_block(cam, upd.hand_present, is_fist)
                 ELSE cam
       IN [c4 EXCEPT !.prev_is_fist = is_fist]
  /\ upd' = [upd EXCEPT !.pc = "pinch"]
  /\ UNCHANGED <<snap, seen, cam_now, cam_last, fc_run>>

\* _handle_pinch, which ends the frame update
UpdatePinch ==
  /\ upd.pc = "pinch"
  /\ cam' = _handle_pinch(cam, upd.pinch_px,
                          upd.pose # NoHand /\ arm_combo_of(upd.pose))
  /\ upd' = [upd EXCEPT !.pc = "idle"]
  /\ UNCHANGED <<snap, seen, cam_now, cam_last, fc_run>>

\* the router's thread calls snapshot()
Snapshot ==
  /\ snap' = camera_snapshot(cam)
  /\ seen' = IF upd.pc = "idle" THEN seen ELSE seen \cup {camera_snapshot(cam)}
  /\ UNCHANGED <<upd, cameraVars>>

SnapshotNext ==
  /\ \/ \E gap \in FrameGaps, pose \in ReducedPoses,
           pinch_px \in SelectPinchPx : UpdateFsm(gap, pose, pinch_px)
     \/ UpdateRecording
     \/ UpdatePinch
     \/ Snapshot
  /\ UNCHANGED <<routerVars, hitVars, telemetryVars, schedVars,
               mappingVars, velocityVars, loopVars, queueLogVars,
               cancelVars, lifecycleVars, driverVars, gestureVars>>

(***************************************************************************)
(* laptop_node/mapping.py as a unit: NoteMapping objects are constructed   *)
(* from bounded arguments and quantize_note (scale_fn None) is called on   *)
(* the constructed object.  Distances and boundaries are whole centimetres.*)
(***************************************************************************)
MaxMapDist == 5

MapDistances == (0 - 1)..MaxMapDist

NoteMappings ==
  [d_min_cm : {0, 2}, d_max_cm : {2, 4},
   note_lo : {0 - 3, 0}, note_hi : {0 - 1, 0, 2}]

MappingInit ==
  /\ mapping_tried = <<>>
  /\ mapping_cfg = <<>>
  /\ q_calls = <<>>

\* NoteMapping(...): __post_init__ raises ValueError, and no object exists,
\* unless the values pass its two tests
Construct(m) ==
  /\ mapping_tried' = <<m>>
  /\ mapping_cfg' = IF NoteMapping_post_init(m) THEN <<m>> ELSE <<>>
  /\ q_calls' = <<>>

Quantize(dist_cm) ==
  /\ mapping_cfg # <<>>
  /\ q_calls' =
       (IF q_calls = <<>> THEN <<>> ELSE <<q_calls[Len(q_calls)]>>)
         \o <<[dist |-> dist_cm,
               note |-> quantize_note(dist_cm, mapping_cfg[1])]>>
  /\ UNCHANGED <<mapping_tried, mapping_cfg>>

MappingNext ==
  /\ \/ \E m \in NoteMappings : Construct(m)
     \/ \E dist_cm \in MapDistances : Quantize(dist_cm)
  /\ UNCHANGED <<routerVars, hitVars, telemetryVars, schedVars, cameraVars,
               velocityVars, loopVars, queueLogVars, cancelVars, lifecycleVars, driverVars, gestureVars, snapshotVars>>

(***************************************************************************)
(* rasp_pi_node/hit_detect.py _compute_velocity as a unit: a HitState is   *)
(* built with bounded velocity fields and the function is called with a    *)
(* prior sample (or none) and a new sample.  Times are microseconds.       *)
(***************************************************************************)
VelNow == 1000000          \* t_s of every call
MaxVelDrop == 13           \* largest last_cm - cm of a call, in cm

VelocityRanges == {<<30, 127>>, <<64, 64>>, <<127, 30>>}
SpeedRanges == {<<10, 120>>, <<0 - 5, 20>>, <<20, 10>>}
VelLastCm == 40
VelDrops == {0 - 1, 0, 1, 3, 6, 12, MaxVelDrop}
VelDts == {0 - 100000, 0, 50000, 100000}

VelocityInit ==
  /\ vel_cfg = <<>>
  /\ v_calls = <<>>

\* HitState(velocity_min=..., velocity_max=..., min_speed_cm_s=...,
\* max_speed_cm_s=..., fixed_velocity=...): the fields are not validated
VelConfigure(vr, sr) ==
  /\ vel_cfg' = <<[velocity_min |-> vr[1], velocity_max |-> vr[2],
                   min_speed_cm_s |-> sr[1], max_speed_cm_s |-> sr[2],
                   fixed_velocity |-> FixedVelocity]>>
  /\ v_calls' = <<>>

\* _compute_velocity(cm, t_s, st) on a state whose prior sample is absent
\* (prior FALSE) or was last_cm = cm + drop, taken dt before t_s
ComputeVelocity(prior, drop, dt) ==
  /\ vel_cfg # <<>>
  /\ LET st == vel_cfg[1] @@
               [last_cm |-> IF prior THEN VelLastCm ELSE None,
                last_sample_s |-> IF prior THEN VelNow - dt ELSE None]
     IN v_calls' =
          (IF v_calls = <<>> THEN <<>> ELSE <<v_calls[Len(v_calls)]>>)
            \o <<[prior |-> prior, drop |-> drop, dt |-> dt,
                  velocity |-> _compute_velocity(VelLastCm - drop, VelNow, st)]>>
  /\ UNCHANGED vel_cfg

VelocityNext ==
  /\ \/ \E vr \in VelocityRanges, sr \in SpeedRanges : VelConfigure(vr, sr)
     \/ \E prior \in BOOLEAN, drop \in VelDrops, dt \in VelDts :
          ComputeVelocity(prior, drop, dt)
  /\ UNCHANGED <<routerVars, hitVars, telemetryVars, schedVars, cameraVars,
               mappingVars, loopVars, queueLogVars, cancelVars, lifecycleVars, driverVars, gestureVars, snapshotVars>>

Init ==
  /\ RouterInit /\ HitInit /\ TelemetryInit /\ SchedInit /\ CameraInit
  /\ MappingInit /\ VelocityInit /\ LoopInit /\ QueueLogInit /\ CancelInit
  /\ LifecycleInit /\ DriverInit /\ GestureInit /\ SnapshotInit

Next == RouterNext

vars ==
  <<routerVars, hitVars, telemetryVars, schedVars, cameraVars, mappingVars,
    velocityVars, loopVars, queueLogVars, cancelVars, lifecycleVars, driverVars, gestureVars, snapshotVars>>

Spec == Init /\ [][Next]_vars

FailSpec == Init /\ [][RouterFailNext]_vars

HitSpec == Init /\ [][HitNext]_vars

TelemetrySpec == Init /\ [][TelemetryNext]_vars

SchedSpec == Init /\ [][SchedNext]_vars

CameraSpec == Init /\ [][CameraNext]_vars

GestureSpec == Init /\ [][GestureNext]_vars

SnapshotSpec == Init /\ [][SnapshotNext]_vars

DebounceSpec == Init /\ [][DebounceNext]_vars

MappingSpec == Init /\ [][MappingNext]_vars

VelocitySpec == Init /\ [][VelocityNext]_vars

LoopSpec == Init /\ [][RouterLoopIteration]_vars

ConfigSpec == Init /\ [][ConfigNext]_vars

HitTickSpec == Init /\ [][HitTick]_vars

SendFailSpec == Init /\ [][SendFailTick]_vars

ChannelSpec == Init /\ [][ChannelNext]_vars

QueueLogSpec == Init /\ [][QueueLogNext]_vars

CancelSpec == Init /\ [][CancelNext]_vars

LifecycleSpec == Init /\ [][LifecycleNext]_vars

DriverSpec == Init /\ [][DriverNext]_vars

\* a step of the osc-tx thread: the locked block of _run or a transmission
WorkerStep ==
  QueueLogNext /\ last_op' \in {"worker", "transmit", "transmit_failed"}

\* the osc-tx thread is a thread of its own and the scheduler lets it run
\* whenever it is runnable: it does not stay for ever in front of the lock
\* or inside send_message
QueueLogFairSpec == QueueLogSpec /\ WF_vars(WorkerStep)

(***************************************************************************)
(* Properties of the router                                                *)
(***************************************************************************)
NoteOnMsg(channel, note, velocity) ==
  [type |-> "note_on", port |-> "musical", channel |-> channel - 1,
   data |-> note, value |-> velocity]
NoteOffMsg(channel, note) ==
  [type |-> "note_off", port |-> "musical", channel |-> channel - 1,
   data |-> note, value |-> 0]
RecordMsg ==
  [type |-> "control_change", port |-> "control",
   channel |-> ControlChannel - 1, data |-> RecordCC, value |-> 127]

\* The tick that led to the primed state ran the pitched branch to its
\* note decision: pitched instrument, PLAY, not muted, fresh telemetry,
\* note_gate true, a distance present.
PitchedTick ==
  /\ last_tick'.ran
  /\ ~last_tick'.aborted
  /\ ~current_is_drum'
  /\ last_camera_state' = "play"
  /\ ~(now' < mute_until')
  /\ ~last_tick'.stale
  /\ last_tick'.gate
  /\ last_tick'.dist # None

\* NoteOff(held_note) only when a note is held, then one NoteOn(note)
ChangeMsgs(held, note) ==
  (IF held = None THEN <<>> ELSE <<NoteOffMsg(LeadChannel, held)>>)
    \o <<NoteOnMsg(LeadChannel, note, LeadVelocity)>>

C2_HeldNoteIsSounding ==
  /\ held_note \in LeadNotes \cup {None}
  /\ \A n \in LeadNotes : sounding[n] = IF held_note = n THEN 1 ELSE 0

\* C2 witness: a tick was aborted by a failed send while a note sounds
C2_Witness ==
  /\ last_tick.aborted
  /\ held_note # None
  /\ sounding[held_note] = 1

\* C3 as stated: a tick with now - last_received >= watchdog_timeout emits
\* no NoteOn and ends with held_note empty, and a stale tick that follows a
\* stale tick emits no further NoteOff.
C3_WatchdogSilences ==
  [][(last_tick'.ran /\ last_tick'.stale /\ ~last_tick'.aborted) =>
       /\ Count(last_tick'.out, IsNoteOn) = 0
       /\ held_note' = None
       /\ (last_tick.ran /\ last_tick.stale) =>
            Count(last_tick'.out, IsLeadOff) = 0]_vars

\* the tick that led to this state could play a pitched note
PlayableInputs ==
  /\ last_camera_state = "play"
  /\ ~current_is_drum
  /\ ~last_tick.stale
  /\ last_tick.gate
  /\ last_tick.dist # None

\* C4: after the tick at t0 that processed a recording false->true edge,
\* every tick with t0 <= now < t0 + countin_beats*60/bpm emits no NoteOn
\* and ends with held_note empty; a tick with now = t0 + countin_beats*60/bpm
\* is not muted: with playable inputs it ends holding the quantized note.
C4_CountinMute ==
  (last_tick.ran /\ ~last_tick.aborted /\ edge_t0 # None) =>
    /\ (edge_t0 <= now /\ now < edge_t0 + countin_duration) =>
         (Count(last_tick.out, IsNoteOn) = 0 /\ held_note = None)
    /\ (now = edge_t0 + countin_duration /\ PlayableInputs) =>
         held_note = NoteOf(last_tick.dist)

\* C4 witness: a NoteOn is emitted exactly at t0 + countin duration
C4_Witness ==
  /\ edge_t0 # None
  /\ now = edge_t0 + countin_duration
  /\ Count(last_tick.out, IsNoteOn) = 1
  /\ held_note # None

(***************************************************************************)
(* Properties of the hit detector                                          *)
(***************************************************************************)
\* C5: any two fired hits are at least refractory_s apart, within the
\* 1e-6 s tolerance.
C5_RefractorySpacing ==
  hit_times[1] # None => hit_times[2] - hit_times[1] >= RefractUs - Epsilon

\* C5 witness: a second hit fired, below-threshold samples in between
C5_Witness ==
  /\ hit_result.fired
  /\ hit_times[1] # None
  /\ hit_times[2] - hit_times[1] = RefractUs - Epsilon

\* C6: detect_hit never fires when called with armed false; a fire leaves
\* armed false; armed returns to true only on a sample above
\* threshold + hysteresis; between two fired hits there is a sample above
\* threshold + hysteresis; a sample inside the band
\* [threshold - hysteresis, threshold + hysteresis] neither changes armed
\* nor fires.
C6_SchmittTrigger ==
  [][/\ hit_result'.fired => (hit_st.armed /\ ~hit_st'.armed)
     /\ (~hit_st.armed /\ hit_st'.armed) =>
          hit_st'.last_cm > Thresh + hit_hyst
     /\ (hit_result'.fired /\ hit_times[2] # None) => high_since_fire
     /\ (/\ Thresh - hit_hyst <= hit_st'.last_cm
         /\ hit_st'.last_cm <= Thresh + hit_hyst) =>
          (hit_st'.armed = hit_st.armed /\ ~hit_result'.fired)]_vars

\* C6 witness: re-armed by a high sample, the detector fired a second time
C6_Witness ==
  /\ hit_result.fired
  /\ hit_times[1] # None
  /\ ~hit_st.armed

(***************************************************************************)
(* Properties of the telemetry channel                                     *)
(***************************************************************************)
\* nothing is queued and the worker holds no popped message
Drained == queue = <<>> /\ worker_pc # "send"

\* C7 as stated: once the queue has drained, the distance slot holds the
\* value of the most recent send_dist call.
C7_LatestDistAsStated ==
  (Drained /\ last_sent_dist # None) => buf_dist_cm = last_sent_dist

\* C7 amended: once the queue has drained, the distance slot holds the
\* value of the most recent send_dist call that found the queue not full
\* or holding a /dist message to evict.
C7_LatestKeptDist ==
  (Drained /\ last_kept_dist # None) => buf_dist_cm = last_kept_dist

\* C7 witness: drained after an eviction on a full queue, the slot holds
\* the value of the last send_dist call
C7_Witness ==
  /\ Drained
  /\ evicted
  /\ n_dist = MaxDist
  /\ buf_dist_cm = last_sent_dist

\* C8: a hit is returned by at most one read, and a read that directly
\* follows a read returns no hit and the same distance.
C8_HitReadOnce ==
  [][/\ \A k \in 1..MaxHit : returned'[k] <= 1
     /\ (last_op = "consume" /\ last_op' = "consume") =>
          /\ snapshot'.hit_velocity = None
          /\ snapshot'.dist_cm = snapshot.dist_cm]_vars

\* C8 witness: a read returned a hit and the read after it returned none
C8_Witness ==
  /\ last_op = "consume"
  /\ snapshot.hit_velocity = None
  /\ snapshot.dist_cm # None
  /\ buf_pending_hit = None
  /\ \E k \in 1..MaxHit : returned[k] = 1

(***************************************************************************)
(* Properties of the fixed-rate loops                                      *)
(***************************************************************************)
\* the deadlines ds lie on the grid ds[1] + n * period
OnGrid(ds, period) ==
  \A i \in 1..Len(ds) : ds[i] = ds[1] + (i - 1) * period

\* C10: in both loops the n-th deadline is the first deadline plus n times
\* the period, whatever the processing time of the earlier cycles.
C10_FixedGrid ==
  /\ OnGrid(pi_deadlines, Period)
  /\ OnGrid(loop_deadlines, TickInterval)

\* C10 witness: both loops have overrun a period, run behind their deadline
\* and have waited for MaxCycles deadlines
C10_Witness ==
  /\ pi_overran /\ loop_overran
  /\ Len(pi_deadlines) = MaxCycles /\ Len(loop_deadlines) = MaxCycles
  /\ pi_clock > pi_next_tick
  /\ loop_clock > loop_next_tick

(***************************************************************************)
(* Properties of the gesture recognizer                                    *)
(***************************************************************************)
\* for how long the finger count has been the same on every processed frame
RunMs == cam_now - fc_run.start

\* C9 as stated: in instrument select the candidate changes only on a frame
\* where the finger count has been continuously the same for the
\* select-stable duration, the active instrument changes by dwell only
\* after the commit duration, and a count held at 3 makes index 2 the
\* candidate and then the active instrument, with no other value between.
C9_SelectDebounce ==
  [][/\ (cam_last'.fsm /\ cam'.candidate_idx # cam.candidate_idx) =>
          RunMs' >= SELECT_STABLE_MS
     /\ (cam_last'.fsm /\ cam'.dwell) => RunMs' >= SELECT_COMMIT_MS
     /\ (/\ cam_last'.fsm /\ cam_last'.key # "i"
         /\ fc_run'.val = 3 /\ fc_run'.in_select) =>
          /\ RunMs' >= SELECT_STABLE_MS => cam'.candidate_idx = 2
          /\ RunMs' >= SELECT_COMMIT_MS => cam'.instrument_idx = 2
          /\ cam'.instrument_idx # cam.instrument_idx =>
               (cam'.instrument_idx = 2 /\ RunMs' >= SELECT_COMMIT_MS)]_vars

\* The interpolated value of a call lies exactly halfway between the notes
\* k and k + 1
Halfway(q, m, k) ==
  /\ m.d_min_cm <= q.dist /\ q.dist <= m.d_max_cm
  /\ 2 * (q.dist - m.d_min_cm) * (m.note_hi - m.note_lo)
       = (2 * (k - m.note_lo) + 1) * (m.d_max_cm - m.d_min_cm)

\* C11: the NoteMapping constructor returns an object exactly for
\* d_min < d_max and note_lo <= note_hi; on every constructed mapping
\* quantize_note without a scale function returns a note in
\* [note_lo, note_hi], note_lo for a distance <= d_min, note_hi for a
\* distance >= d_max, the higher note k + 1 when the interpolated value is
\* exactly halfway between k and k + 1, and for two calls the call with the
\* smaller distance never returns the higher note.
C11_QuantizeContract ==
  /\ mapping_tried # <<>> =>
       ((mapping_cfg # <<>>) <=>
          (mapping_tried[1].d_min_cm < mapping_tried[1].d_max_cm
             /\ mapping_tried[1].note_lo <= mapping_tried[1].note_hi))
  /\ mapping_cfg # <<>> => mapping_cfg = mapping_tried
  /\ \A i \in 1..Len(q_calls) :
       LET q == q_calls[i]
           m == mapping_cfg[1]
       IN /\ m.note_lo <= q.note /\ q.note <= m.note_hi
          /\ q.dist <= m.d_min_cm => q.note = m.note_lo
          /\ q.dist >= m.d_max_cm => q.note = m.note_hi
          /\ \A k \in m.note_lo..(m.note_hi - 1) :
               Halfway(q, m, k) => q.note = k + 1
  /\ \A i, j \in 1..Len(q_calls) :
       q_calls[i].dist <= q_calls[j].dist => q_calls[i].note <= q_calls[j].note

\* The call had a prior sample taken before the new one
Timed(c) == c.prior /\ c.dt > 0

\* velocity fields in their stated relation
VelocityFieldsOrdered(st) ==
  st.velocity_min <= st.velocity_max /\ st.min_speed_cm_s < st.max_speed_cm_s

\* The velocity of a timed call for the approach speed speed_num / dt cm/s:
\* velocity_min at or below min_speed, velocity_max at or above max_speed,
\* the nearest integer to the linear interpolation in between
VelocityFor(c, st, speed_num) ==
  LET den == (st.max_speed_cm_s - st.min_speed_cm_s) * c.dt
      num == st.velocity_min * den
               + (speed_num - st.min_speed_cm_s * c.dt)
                   * (st.velocity_max - st.velocity_min)
  IN IF speed_num <= st.min_speed_cm_s * c.dt
       THEN c.velocity = st.velocity_min
     ELSE IF speed_num >= st.max_speed_cm_s * c.dt
       THEN c.velocity = st.velocity_max
     ELSE /\ 2 * (c.velocity * den - num) <= den
          /\ 2 * (num - c.velocity * den) <= den

\* what the velocity contract says of the calls on record, given how the
\* approach speed of a call is measured
VelocityContract(SpeedNum(_)) ==
  /\ \A i \in 1..Len(v_calls) :
       LET c == v_calls[i]
           st == vel_cfg[1]
       IN /\ ~Timed(c) => c.velocity = st.fixed_velocity
          /\ (Timed(c) /\ VelocityFieldsOrdered(st)) =>
               /\ VelocityFor(c, st, SpeedNum(c))
               /\ st.velocity_min <= c.velocity
               /\ c.velocity <= st.velocity_max
  /\ \A i, j \in 1..Len(v_calls) :
       (/\ Timed(v_calls[i]) /\ Timed(v_calls[j])
        /\ VelocityFieldsOrdered(vel_cfg[1])
        /\ v_calls[i].drop * v_calls[j].dt <= v_calls[j].drop * v_calls[i].dt)
         => v_calls[i].velocity <= v_calls[j].velocity

RawSpeedNum(c) == c.drop * HitUnitsPerSec
FlooredSpeedNum(c) == Max(0, c.drop * HitUnitsPerSec)

\* C12 as stated: a call without a prior sample or with dt <= 0 returns the
\* fixed velocity; otherwise, for velocity_min <= velocity_max and
\* min_speed < max_speed and approach speed (last_cm - cm) / dt, the result
\* is velocity_min for speed <= min_speed, velocity_max for speed >=
\* max_speed, the rounded interpolation in between, within [velocity_min,
\* velocity_max], and monotonic non-decreasing in the approach speed.
C12_VelocityAsStated == VelocityContract(RawSpeedNum)

\* C12 amended: the same with the approach speed floored at zero,
\* max(0, (last_cm - cm) / dt).
C12_VelocityOfFlooredSpeed == VelocityContract(FlooredSpeedNum)

\* C12 witness: a timed call in the interpolation range follows a slower
\* timed call and returns a higher velocity, strictly between the bounds
C12_Witness ==
  /\ Len(v_calls) = 2
  /\ Timed(v_calls[1]) /\ Timed(v_calls[2])
  /\ VelocityFieldsOrdered(vel_cfg[1])
  /\ vel_cfg[1].min_speed_cm_s > 0
  /\ v_calls[1].drop * v_calls[2].dt < v_calls[2].drop * v_calls[1].dt
  /\ v_calls[1].velocity < v_calls[2].velocity
  /\ vel_cfg[1].velocity_min < v_calls[2].velocity
  /\ v_calls[2].velocity < vel_cfg[1].velocity_max

\* C13: no error crosses a tick boundary: after a tick in which process_tick
\* failed the router loop is still running (so that tick k + 1 is executed).
C13_LoopSurvivesFailedTick == last_tick.aborted => loop_running

IsRecordMsg(m) == m = RecordMsg

\* C14: when all sends succeed, a tick emits exactly one record control
\* change if the gesture recording flag differs from was_recording at the
\* start of the tick and none otherwise, and was_recording equals the
\* gesture recording flag when the tick ends, whatever the mode, watchdog
\* and mute state of the tick.
C14_TransportSync ==
  [][/\ Count(last_tick'.out, IsRecordMsg) =
          (IF last_tick'.recording # was_recording THEN 1 ELSE 0)
     /\ was_recording' = last_tick'.recording]_vars

\* C14 witness: a recording true->false edge was processed by a tick that
\* was stale, muted and not in PLAY, and it sent the record control change
C14_Witness ==
  /\ last_tick.ran /\ ~last_tick.recording /\ ~was_recording
  /\ Count(last_tick.out, IsRecordMsg) = 1
  /\ last_tick.stale
  /\ now < mute_until
  /\ last_camera_state # "play"

\* C15: a recording true->false edge clears suppression: the tick that
\* processes the edge, and every later tick while not recording, is not
\* muted, so on a pitched instrument with mode PLAY, fresh telemetry,
\* note_gate true and a distance present it ends holding the quantized note,
\* having sent its NoteOn unless that note was already held, even before the
\* count-in deadline set by the preceding false->true edge.
C15_StopClearsMute ==
  [][(/\ ~last_tick'.recording
      /\ last_camera_state' = "play"
      /\ ~current_is_drum'
      /\ ~last_tick'.stale
      /\ last_tick'.gate
      /\ last_tick'.dist # None)
     => /\ held_note' = NoteOf(last_tick'.dist)
        /\ held_note # held_note' =>
             Count(last_tick'.out, IsNoteOn) = 1]_vars

\* C16: in every tick where mode is not PLAY or the tick is muted
\* (now < mute_until), a held note is released (its NoteOff is sent), no
\* NoteOn is emitted on any channel, and when the tick ends held_note is
\* empty and was_note_playing is false.
C16_SilentWhenNotPlayable ==
  [][(last_camera_state' # "play" \/ now' < mute_until')
     => /\ held_note' = None
        /\ ~was_note_playing'
        /\ Count(last_tick'.out, IsNoteOn) = 0
        /\ held_note # None =>
             \E i \in DOMAIN last_tick'.out :
               last_tick'.out[i] = NoteOffMsg(LeadChannel, held_note)]_vars

\* C16 witness: a muted tick in PLAY with note_gate true and a distance
\* present has released the note that was held
C16_Witness ==
  /\ last_tick.ran
  /\ last_camera_state = "play" /\ now < mute_until
  /\ last_tick.gate /\ last_tick.dist # None /\ ~last_tick.stale
  /\ Count(last_tick.out, IsNoteOff) = 1
  /\ held_note = None

InsertTrackMsg ==
  [type |-> "control_change", port |-> "control",
   channel |-> ControlChannel - 1, data |-> InsertTrackCC, value |-> 127]

\* the insert-track control changes of a tick sent before its record control
\* change (process_tick runs the instrument-change step before the
\* recording edge, which sends the record control change first)
InsertsOfChangeStep(out) ==
  Cardinality({i \in DOMAIN out :
                 /\ out[i] = InsertTrackMsg
                 /\ \A j \in 1..(i - 1) : out[j] # RecordMsg})

\* C17: in a tick whose instrument label differs from the label of the
\* previous tick a held note is released, its NoteOff preceding every NoteOn
\* of the tick; the instrument-change step emits one insert-track control
\* change if auto-insert is configured and the gesture state is recording,
\* and none otherwise; a tick with an unchanged label emits no insert-track
\* control change from that step, and no note message when it is a playable
\* pitched tick (no recording edge) whose quantized note is already held.
C17_InstrumentChange ==
  [][LET out == last_tick'.out
         changed == last_instrument_state' # last_instrument_state
     IN /\ (changed /\ held_note # None) =>
             \E i \in DOMAIN out :
               /\ out[i] = NoteOffMsg(LeadChannel, held_note)
               /\ \A j \in 1..(i - 1) : ~IsNoteOn(out[j])
        /\ InsertsOfChangeStep(out) =
             (IF /\ changed
                 /\ router_config.auto_insert_on_instrument_change
                 /\ last_tick'.recording
              THEN 1 ELSE 0)
        /\ (/\ ~changed
            /\ last_camera_state' = "play" /\ now' >= mute_until'
            /\ was_recording = was_recording'
            /\ ~current_is_drum'
            /\ last_tick'.gate /\ last_tick'.dist # None
            /\ held_note = NoteOf(last_tick'.dist))
           => Count(out, IsNoteMsg) = 0]_vars

\* C17 witness: with auto-insert configured and recording, a tick with a
\* changed label released the held note, requested a track and, still in
\* PLAY after the count-in, sounded a note again
C17_Witness ==
  /\ last_tick.ran /\ last_tick.recording
  /\ router_config.auto_insert_on_instrument_change
  /\ Len(last_tick.out) >= 3
  /\ IsNoteOff(last_tick.out[1])
  /\ InsertsOfChangeStep(last_tick.out) = 1
  /\ IsNoteOn(last_tick.out[Len(last_tick.out)])

\* the drum impulses of a tick: a NoteOn of the current drum note on the
\* drum channel immediately followed by the NoteOff of the same note
DrumImpulses(out, note) ==
  {i \in DOMAIN out :
     /\ out[i] = NoteOnMsg(DrumChannel, note, DrumVelocityDefault)
     /\ i + 1 \in DOMAIN out
     /\ out[i + 1] = NoteOffMsg(DrumChannel, note)}

\* C18: on a percussive instrument a tick emits a drum impulse if and only
\* if it is playable (mode PLAY, not muted) and note_gate rose (false in the
\* previous tick, true in this one); the impulse is one NoteOn immediately
\* followed by the NoteOff of the same drum note and is the tick's only
\* NoteOn, and held_note is empty when the tick ends.  So a note_gate that
\* stays true across ticks, muted and non-PLAY ticks included, fires at most
\* one impulse.
C18_DrumOnGateRise ==
  [][current_is_drum' =>
       LET out == last_tick'.out
           playable == last_camera_state' = "play" /\ now' >= mute_until'
           rose == ~last_tick.gate /\ last_tick'.gate
           impulses == DrumImpulses(out, current_drum_note')
       IN /\ Cardinality(impulses) = (IF playable /\ rose THEN 1 ELSE 0)
          /\ Count(out, IsNoteOn) = Cardinality(impulses)
          /\ held_note' = None]_vars

\* C19: when the sensor snapshot of a playable tick (mode PLAY, not muted)
\* on a percussive instrument carries a hit velocity, the tick emits a drum
\* impulse whose velocity is that hit velocity; the default velocity is
\* used only for impulses of ticks whose snapshot carries no hit.
C19_HitDrivesDrum ==
  [][(/\ current_is_drum'
      /\ last_camera_state' = "play" /\ now' >= mute_until'
      /\ last_tick'.hit # None)
     => /\ \E i \in DOMAIN last_tick'.out :
             last_tick'.out[i] =
               NoteOnMsg(DrumChannel, current_drum_note', last_tick'.hit)
        /\ \A i \in DOMAIN last_tick'.out :
             IsNoteOn(last_tick'.out[i]) =>
               last_tick'.out[i].value = last_tick'.hit]_vars

\* the gesture state the last tick was called with, from what the tick
\* recorded of it
LastApp ==
  [instrument_state |-> last_instrument_state',
   camera_state |-> last_camera_state',
   recording |-> last_tick'.recording,
   is_note_being_played |-> last_tick'.gate]

\* the same tick with every send succeeding
AllSent ==
  TickResult(LastApp, last_tick'.dist, last_tick'.hit,
             IF last_tick'.stale THEN WatchdogS ELSE 0, now', 0)

\* C20: a tick whose program-change send fails is not aborted and goes on
\* exactly as the tick whose sends all succeed (same later messages, same
\* state at its end), only without the program change; a tick in which any
\* other send fails ends at that send, the error leaving process_tick; and
\* the message whose send failed is not attempted again in the tick.
C20_SendFailures ==
  [][LET tried == last_tick'.tried
         f == last_tick'.fail
     IN f > 0 =>
          /\ f \in DOMAIN tried
          /\ \A j \in DOMAIN tried : j > f => tried[j] # tried[f]
          /\ IF tried[f].type = "program_change"
             THEN /\ ~last_tick'.aborted
                  /\ last_tick'.out =
                       SubSeq(tried, 1, f - 1) \o SubSeq(tried, f + 1, Len(tried))
                  /\ \A all \in {AllSent} :
                       /\ tried = all.out
                       /\ held_note' = all.held_note
                       /\ was_recording' = all.was_recording
                       /\ mute_until' = all.mute_until
                       /\ was_note_playing' = all.was_note_playing
                       /\ watchdog_tripped' = all.watchdog_tripped
             ELSE /\ last_tick'.aborted
                  /\ Len(tried) = f
                  /\ last_tick'.out = SubSeq(tried, 1, f - 1)]_vars

\* C20 witness: the program change of a tick failed and the tick went on to
\* release the held note, send the record control change of a true->false
\* edge and sound a note
C20_Witness ==
  /\ last_tick.fail > 0
  /\ last_tick.tried[last_tick.fail].type = "program_change"
  /\ ~last_tick.aborted
  /\ Count(last_tick.out, IsNoteOff) = 1
  /\ Count(last_tick.out, IsRecordMsg) = 1
  /\ Count(last_tick.out, IsNoteOn) = 1

\* C21: a failed send does not corrupt the state used by the next tick: when
\* a tick delivered the record control change and the next tick sees the
\* same gesture recording flag (no new edge), the next tick does not send
\* the record control change again, also when the earlier tick was ended by
\* a send that failed after the record control change.
C21_RecordOncePerEdge ==
  [][(/\ last_tick.ran
      /\ Count(last_tick.out, IsRecordMsg) > 0
      /\ last_tick'.recording = last_tick.recording)
     => \A i \in DOMAIN last_tick'.tried : last_tick'.tried[i] # RecordMsg]_vars

\* the channels of the router's configuration are all within 1..16
ConfigChannelsValid ==
  /\ channel_ok(router_config.drum_channel)
  /\ channel_ok(router_config.lead_channel)
  /\ channel_ok(router_config.control_channel)

\* C22: a MIDI channel outside 1..16 is rejected at startup: a router whose
\* drum, lead or control channel is outside 1..16 never runs a tick, no
\* tick meets a channel error (raised or swallowed), and every message of
\* a tick is sent on a zero-based channel 0..15.
C22_ChannelsCheckedAtStartup ==
  last_tick.ran =>
    /\ ConfigChannelsValid
    /\ ~last_tick.channel_error
    /\ \A i \in DOMAIN last_tick.out : last_tick.out[i].channel \in 0..15

IsDist(m) == m.address = "/dist"
NotDist(m) == m.address # "/dist"

\* the queue q without its oldest /dist message
WithoutOldestDist(q) ==
  LET i == CHOOSE i \in DOMAIN q :
             /\ IsDist(q[i])
             /\ \A j \in 1..(i - 1) : NotDist(q[j])
  IN [k \in 1..(Len(q) - 1) |-> IF k < i THEN q[k] ELSE q[k + 1]]

\* C23: the outbound queue never holds more than queue_size messages; a
\* send_dist on a full queue removes the oldest queued /dist and appends
\* the new distance at the tail, or leaves the queue as it is when no /dist
\* is queued; a send_dist never changes the relative order of the other
\* queued messages.
C23_BoundedCoalescing ==
  /\ [](Len(queue) <= QueueSize)
  /\ [][n_dist' # n_dist =>
         LET new == [address |-> "/dist", payload |-> n_dist']
         IN /\ Len(queue) >= QueueSize =>
                 queue' = IF \E i \in DOMAIN queue : IsDist(queue[i])
                          THEN Append(WithoutOldestDist(queue), new)
                          ELSE queue
            /\ SelectSeq(queue', NotDist) = SelectSeq(queue, NotDist)]_vars

\* a send_dist has just evicted the oldest /dist of a full queue that also
\* holds a message of another class
C23_Witness ==
  /\ last_op = "send_dist"
  /\ evicted
  /\ Len(queue) = QueueSize
  /\ queue[Len(queue)] = [address |-> "/dist", payload |-> n_dist]
  /\ \E i \in DOMAIN queue : NotDist(queue[i])

\* the messages handed to client.send_message so far, in order
TxMsgs == [i \in DOMAIN tx_log |-> tx_log[i].msg]

\* the message the worker has dequeued and not yet handed over
InFlight == IF worker_pc = "send" THEN <<worker_msg>> ELSE <<>>

IsPrefix(a, b) == Len(a) <= Len(b) /\ a = SubSeq(b, 1, Len(a))

\* a step that is a call of send_hit or send_alive
HitOrAliveCall == n_hit' # n_hit \/ n_alive' # n_alive

\* C24: /hit and /alive do not coalesce: a send_hit or send_alive on a full
\* queue leaves the queue as it is and the message is dropped; no enqueue
\* removes a queued /hit or /alive; and the /hit and /alive messages are
\* handed to the transport in the order they were accepted (those
\* transmitted, the one in flight and those queued are, in this order, the
\* accepted ones).
C24_NonCoalescing ==
  /\ [](SelectSeq(TxMsgs, NotDist) \o SelectSeq(InFlight, NotDist)
          \o SelectSeq(queue, NotDist) = SelectSeq(acc_log, NotDist))
  /\ [][/\ (HitOrAliveCall /\ Len(queue) >= QueueSize)
             => (queue' = queue /\ acc_log' = acc_log)
        /\ (n_dist' # n_dist \/ HitOrAliveCall)
             => IsPrefix(SelectSeq(queue, NotDist),
                         SelectSeq(queue', NotDist))]_vars

\* a /hit was dropped on a full queue holding a /dist, after an earlier
\* /hit and the /alive were transmitted
C24_Witness ==
  /\ last_op = "send_hit"
  /\ ~closed
  /\ Len(queue) = QueueSize
  /\ \E i \in DOMAIN queue : IsDist(queue[i])
  /\ n_hit = MaxHit
  /\ Len(SelectSeq(acc_log, LAMBDA m : m.address = "/hit")) < n_hit
  /\ Len(SelectSeq(TxMsgs, NotDist)) >= 2

\* the place of the accepted message m in the order of acceptance (every
\* accepted message is different from every other)
AcceptedAt(m) == CHOOSE i \in DOMAIN acc_log : acc_log[i] = m

\* the worker dequeues in this step
Dequeues == worker_pc = "top" /\ worker_pc' = "send"

\* the worker calls client.send_message in this step
Transmits == tx_log' # tx_log

\* C25: the worker transmits each dequeued message exactly once and in
\* queue order: it dequeues the head of the queue, the messages handed to
\* the transport are accepted messages in their order of acceptance,
\* none twice; the transmission is made outside the lock, so while it is
\* under way every enqueue can proceed; whether the transmission succeeds
\* or raises, the message is gone afterwards and the worker is back at the
\* top of its loop with the queue as it was.
C25_WorkerFifoOnce ==
  /\ [](/\ \A i \in DOMAIN TxMsgs :
             \E k \in DOMAIN acc_log : acc_log[k] = TxMsgs[i]
        /\ \A i, j \in DOMAIN TxMsgs :
             i < j => AcceptedAt(TxMsgs[i]) < AcceptedAt(TxMsgs[j])
        /\ (worker_pc = "send" /\ ~closed) =>
             /\ n_dist < MaxDist => ENABLED SendDist
             /\ n_hit < MaxHit => ENABLED SendHit
             /\ n_alive < MaxAlive => ENABLED SendAlive)
  /\ [][/\ Dequeues => (worker_msg' = Head(queue) /\ queue' = Tail(queue))
        /\ Transmits =>
             /\ worker_pc = "send"
             /\ tx_log' = Append(tx_log, [msg |-> worker_msg,
                                          ok |-> last_op' = "transmit"])
             /\ worker_pc' = "top"
             /\ worker_msg' = NoMsg
             /\ queue' = queue
        /\ (worker_pc = "send" /\ worker_pc' # "send") => Transmits]_vars

\* a transmission raised and the message queued after it was transmitted
\* next, an enqueue having been accepted while the worker was transmitting
C25_Witness ==
  /\ Len(tx_log) >= 2
  /\ ~tx_log[Len(tx_log) - 1].ok
  /\ tx_log[Len(tx_log)].ok
  /\ AcceptedAt(tx_log[Len(tx_log)].msg)
       = AcceptedAt(tx_log[Len(tx_log) - 1].msg) + 1
  /\ worker_pc = "send"
  /\ last_op = "send_dist"
  /\ queue # <<>>
  /\ queue[Len(queue)] = [address |-> "/dist", payload |-> n_dist]

\* a step that is a call of send_dist, send_hit or send_alive
EnqueueCall == n_dist' # n_dist \/ HitOrAliveCall

\* C26: shutdown of the sender: close() wakes a worker waiting on the empty
\* queue; the worker is never left waiting once the sender is closed, and
\* under fair scheduling it terminates, with the queue empty and every
\* accepted /hit and /alive and the last accepted /dist handed to the
\* transport; after close() an enqueue is rejected and changes nothing; a
\* second close() changes nothing.
C26_Shutdown ==
  /\ [](/\ ~(closed /\ worker_pc = "waiting")
        /\ worker_pc = "done" =>
             /\ closed /\ queue = <<>>
             /\ \A i \in DOMAIN acc_log :
                  (NotDist(acc_log[i]) \/ i = Len(acc_log)) =>
                    \E k \in DOMAIN TxMsgs : TxMsgs[k] = acc_log[i])
  /\ [][/\ (closed /\ EnqueueCall) =>
             UNCHANGED <<queue, closed, worker_pc, worker_msg, acc_log>>
        /\ (closed /\ last_op' = "close") =>
             UNCHANGED <<queue, closed, worker_pc, worker_msg, queueLogVars>>
        /\ (worker_pc = "waiting" /\ ~closed /\ closed') =>
             worker_pc' = "top"]_vars
  /\ closed ~> (worker_pc = "done")

\* the worker has terminated after transmitting two messages, and a
\* send_hit made after that, on the closed sender, was rejected
C26_Witness ==
  /\ worker_pc = "done"
  /\ closed
  /\ last_op = "send_hit"
  /\ n_hit = 1
  /\ \A i \in DOMAIN acc_log : acc_log[i].address # "/hit"
  /\ Len(tx_log) >= 2

\* C27: the receipt of any telemetry message, /dist, /hit or /alive alike,
\* advances the watchdog reference: after a datagram has reached the
\* router's dispatcher, last_rx_ts is the time of that receipt.
C27_AnyReceiptAdvancesWatchdog ==
  [][last_op' = "transmit" => buf_last_rx_ts' = rx_now']_vars

\* C28: no burst after an overrun.  Sensor loop: when a cycle fired after
\* its deadline, without sleeping, and its processing took no time, the
\* next cycle does not also fire after its deadline: it waits for it.
\* Router loop: when a cycle ended after its deadline, without sleeping,
\* the next cycle, if its processing takes no time, does not also end after
\* its deadline.
C28_NoBurst ==
  [][/\ (pi_deadlines' # pi_deadlines /\ pi_last.ran /\ pi_last.late
          /\ pi_last.work = 0) => ~pi_last'.late
     /\ (loop_deadlines' # loop_deadlines /\ loop_last.ran /\ loop_last.late
          /\ loop_last'.work = 0) => ~loop_last'.late]_vars

\* C29: cooperative cancellation.  After the stop flag is set the sensor
\* loop runs no further cycle: its next test of the flag ends it.  After
\* cancel() the router loop begins at most one further tick, also when
\* its cycles overrun.  A datagram that waits for its handler when a router
\* cycle begins has been handled when the cycle ends.
C29_CooperativeCancellation ==
  [][/\ stop_flag => pi_deadlines' = pi_deadlines
     /\ (stop_flag /\ sensor_running') => pi_clock' = pi_clock
     /\ ticks_after_cancel' <= 1
     /\ (loop_deadlines' # loop_deadlines /\ datagram_pending)
          => ~datagram_pending']_vars

\* C30: every acquired resource is released on every exit path: when run()
\* has exited, neither the telemetry sender nor the sensor driver is left
\* open, and when async_main() has exited, neither a MIDI port nor the OSC
\* receiver is left open.
C30_ReleasedOnEveryExit ==
  /\ run_pc = "exited" => (~osc_open /\ ~sensor_open)
  /\ main_pc = "exited" => (~musical_open /\ ~control_open /\ ~receiver_open)

\* C31: the sensor driver's shared cell.  A stored echo is within
\* (0, timeout_us]; a read returns the stored echo and clears it in the
\* same critical section; and over every interleaving of edge callbacks,
\* triggers and reads no echo is returned by more than one read.
C31_EchoReadOnce ==
  /\ [](/\ drv.last_echo_us # None =>
             (0 < drv.last_echo_us /\ drv.last_echo_us <= TimeoutUs)
        /\ \A k \in 1..MaxEchoes : drv.returned[k] <= 1)
  /\ [][drv'.op = "read" =>
          /\ drv'.result = drv.last_echo_us
          /\ drv'.last_echo_us = None]_vars

\* the second stored echo has been returned by one read, and the last
\* call, a read, returned nothing
C31_Witness ==
  /\ drv.op = "read"
  /\ drv.result = None
  /\ drv.echo_id > 0
  /\ drv.returned[drv.echo_id] = 1
  /\ drv.n_echo >= 2

\* the fist edge of _run_fsm fired in the step: is_fist is true in the frame
\* and was false in the frame before
FistEdgeStep == cam'.prev_is_fist /\ ~cam.prev_is_fist

\* the step is an iteration with a frame that starts in instrument select
SelectFrameStep == cam_last'.fsm /\ cam.camera_state = "instrument select"

\* what the fist edge in instrument select does: play, the candidate (as
\* the frame leaves it) committed if there is one, the arm gate inhibited
FistEdgeToPlay ==
  /\ cam'.camera_state = "play"
  /\ cam'.instrument_idx = IF cam'.candidate_idx # None
                           THEN cam'.candidate_idx ELSE cam.instrument_idx
  /\ ~cam'.arm_ready
  /\ cam'.arm_start_ms = 0

\* C32 as stated: in instrument select a stabilized rising edge of fist moves
\* to play in the same frame, commits the candidate if there is one and
\* otherwise leaves the active instrument, and resets the arm gate (not
\* ready, no dwell timer); nothing else moves from instrument select to
\* play.
C32_FistEdgeOnly ==
  [][SelectFrameStep =>
       /\ FistEdgeStep => FistEdgeToPlay
       /\ cam'.camera_state = "play" => FistEdgeStep]_vars

\* C32 for the frames in which no key is pressed: the fist edge moves to
\* play, commits the candidate and resets the arm gate, and among the
\* gestures nothing but the fist edge moves from instrument select to play.
C32_FistEdgeEntersPlay ==
  [][(SelectFrameStep /\ cam_last'.key = "none") =>
       /\ FistEdgeStep => FistEdgeToPlay
       /\ cam'.camera_state = "play" => FistEdgeStep]_vars

\* a frame without a key went from instrument select to play and committed
\* the candidate 2
C32_Witness ==
  /\ cam_last.fsm /\ cam_last.select /\ cam_last.key = "none"
  /\ cam.camera_state = "play"
  /\ cam.prev_is_fist
  /\ cam.candidate_idx = 2
  /\ cam.instrument_idx = 2

\* the step is an iteration with a frame that starts in play
PlayFrameStep == cam_last'.fsm /\ cam.camera_state = "play"

\* present_smoothed of the frame of the step: a hand in the frame, or the
\* last one seen no longer ago than the grace window
HandPresentStep ==
  \/ cam_in'.pose # NoHand
  \/ cam_now' - cam.last_hand_seen <= HAND_PRESENT_GRACE_MS

\* the fist was closed in the frame before the step and still is
FistHeldStep == cam_last'.fsm /\ cam.prev_is_fist /\ cam'.prev_is_fist

\* C33 as stated: in play a stabilized rising edge of fist returns to
\* instrument select; when not recording only with hand presence confirmed,
\* without it the mode stays; when recording the edge clears recording and
\* returns to instrument select; while the fist stays closed no frame
\* changes the mode.
C33_FistEdgeLeavesPlay ==
  [][/\ (PlayFrameStep /\ FistEdgeStep /\ ~cam.recording) =>
          cam'.camera_state = IF HandPresentStep THEN "instrument select"
                              ELSE "play"
     /\ (PlayFrameStep /\ FistEdgeStep /\ cam.recording) =>
          /\ ~cam'.recording
          /\ cam'.camera_state = "instrument select"
     /\ FistHeldStep => cam'.camera_state = cam.camera_state]_vars

PinchFrameStep ==
  /\ cam'.camera_state = "play"
  /\ cam'.instrument_idx >= 0
  /\ cam_in'.pose # NoHand
  /\ ~arm_combo_of(cam_in'.pose)

\* C35: at the end of every frame update without a key, note_on is false
\* when the mode is not play, when no instrument is active and when the
\* frame shows the arm combo; otherwise it turns true only on a frame whose
\* thumb-to-index distance is below the enter threshold, turns false only
\* on a frame whose distance is at or above the exit threshold
\* (enter threshold plus hysteresis), and a distance between the two
\* thresholds leaves it as it was.
C35_NoteGate ==
  [][cam_last'.fsm =>
       /\ cam'.camera_state # "play" => ~cam'.note_on
       /\ cam'.instrument_idx < 0 => ~cam'.note_on
       /\ arm_combo_of(cam_in'.pose) => ~cam'.note_on
       /\ (cam'.note_on /\ ~cam.note_on) =>
            PinchFrameStep /\ cam_in'.pinch_px < PINCH_THRESH_PX
       /\ (PinchFrameStep /\ cam_in'.pinch_px < PINCH_THRESH_PX) =>
            cam'.note_on
       /\ (PinchFrameStep /\ cam.note_on /\ ~cam'.note_on) =>
            cam_in'.pinch_px >= PINCH_THRESH_PX + PINCH_HYST
       /\ (PinchFrameStep /\ cam_in'.pinch_px >= PINCH_THRESH_PX
           /\ cam_in'.pinch_px < PINCH_THRESH_PX + PINCH_HYST) =>
            cam'.note_on = cam.note_on]_vars

\* a note that was turned on by a pinch is still on after a frame whose
\* distance lies between the two thresholds
C35_Witness ==
  /\ cam_last.fsm
  /\ cam_in.start_state = "play"
  /\ cam.camera_state = "play"
  /\ cam.note_on
  /\ cam_in.pinch_px >= PINCH_THRESH_PX
  /\ cam_in.pinch_px < PINCH_THRESH_PX + PINCH_HYST

\* C36: the idle count is excluded from selection.  A frame that starts in
\* instrument select and shows all five fingers changes neither the
\* candidate nor the active instrument, however long the five fingers have
\* been held and however many instruments are configured.
C36_IdleExcluded ==
  [][(SelectFrameStep /\ fcount_of(cam_in'.pose) = 5) =>
       /\ cam'.candidate_idx = cam.candidate_idx
       /\ cam'.instrument_idx = cam.instrument_idx]_vars

\* a frame of the step changed the mode or cleared recording
TransitionStep ==
  /\ cam_last'.fsm
  /\ \/ cam'.camera_state # cam.camera_state
     \/ cam.recording /\ ~cam'.recording

\* C37: the fist is trusted only after the raw fist reading (finger count
\* at most FIST_MAX_UP) has been true on every frame for at least
\* FIST_STABLE_MS.  A frame changes the mode or stops recording only if the
\* raw reading has held that long; a raw fist seen on a single frame, or
\* for less than the hold time, does neither.
C37_FistDebounce ==
  [][TransitionStep =>
       /\ cam_in'.fist_since # None
       /\ cam_now' - cam_in'.fist_since >= FIST_STABLE_MS]_vars

\* recording goes on after a second frame with a raw fist, 100 ms after the
\* first
C37_Witness ==
  /\ cam_last.fsm
  /\ cam_in.start_state = "play" /\ cam_in.start_rec
  /\ cam.recording /\ cam.camera_state = "play"
  /\ cam_in.fist_since # None
  /\ cam_now - cam_in.fist_since = 100

\* C38: hand removal is not a gesture.  A frame on which no hand is detected
\* changes neither the mode nor recording nor the active instrument,
\* whether the hand has been absent for less or for more than the grace
\* window.
C38_NoHandNoGesture ==
  [][(cam_last'.fsm /\ cam_in'.pose = NoHand) =>
       /\ cam'.camera_state = cam.camera_state
       /\ cam'.recording = cam.recording
       /\ cam'.instrument_idx = cam.instrument_idx]_vars

\* C39: every snapshot the router reads is the gesture state at a frame
\* boundary.  Whatever the interleaving of snapshot() with a frame update,
\* no snapshot has recording true with the mode instrument select or a note
\* on with a mode other than play, and every snapshot taken during a frame
\* update is the state the frame started from or the state it ends with (so
\* no snapshot shows a recording flag that the same frame sets and clears).
C39_SnapshotAtFrameBoundary ==
  /\ [](/\ snap.recording => snap.camera_state = "play"
        /\ snap.is_note_being_played => snap.camera_state = "play")
  /\ [][(upd.pc = "pinch" /\ upd'.pc = "idle") =>
          seen \subseteq {upd.start, camera_snapshot(cam')}]_vars

\* C40: at the end of every frame update without a key, recording true
\* implies the mode play, also on a frame where the stabilized fist edge and
\* the completion of the arm dwell coincide; the active instrument index is
\* none (-1) or an index of the instrument list; and it changes only on
\* frames that start in instrument select.
C40_RecordingInPlay ==
  /\ [](/\ cam.recording => cam.camera_state = "play"
        /\ cam.instrument_idx = -1
             \/ (0 <= cam.instrument_idx
                 /\ cam.instrument_idx < Len(instruments)))
  /\ [][(cam_last'.fsm /\ cam'.instrument_idx # cam.instrument_idx) =>
          cam.camera_state = "instrument select"]_vars

\* a frame in play on which the fist edge fell together with the end of the
\* arm dwell: the combo had been held for the dwell duration and the frame
\* ended in instrument select with recording false
C40_Witness ==
  /\ cam_last.fsm
  /\ cam_in.start_state = "play" /\ ~cam_in.start_rec
  /\ cam_in.fist_edge
  /\ cam.camera_state = "instrument select"
  /\ ~cam.recording
  /\ cam.arm_start_ms = 0
  /\ cam_in.cleared
  /\ cam_in.combo_since # None
  /\ cam_now - cam_in.combo_since >= ARM_COMBO_DWELL_MS

====
